---- MODULE Spec2Model ----
(***************************************************************************)
(* A model of the WebGL demo programs of this repository: the flat cube    *)
(* program (main.js with the first revision of shaders.js), the textured   *)
(* cube program (the BufferFactory / ShaderProgramFactory / LoadTexture    *)
(* revision), the helper classes on their own, and the vec constructors of *)
(* the Angel.js-style math library.                                        *)
(*                                                                         *)
(* Numbers: every array the programs upload is integer valued, so numbers  *)
(* are integers here. Float32Array and Uint16Array are modelled by their   *)
(* effect on integers. Seconds are exact rationals (IEEE rounding of the   *)
(* time arithmetic is not modelled).                                       *)
(***************************************************************************)
EXTENDS Integers, Sequences, FiniteSets, TLC

VARIABLES
    \* ---- the running program (Spec)
    variant,        \* which program revision runs: "flat" or "textured"
    pc,             \* "start", "noctx", "crashed" (main threw), "running"
    gl,             \* the WebGL rendering context state (Null record before main)
    env,            \* the browser: what getContext answered, the latest frame time
    program_data,   \* main's program_data (ProgramData record or NullData)
    buffer_data,    \* main's buffers / buffer_data (ids of the WebGLBuffers)
    texture,        \* main's texture (WebGLTexture id, 0 = none)
    then,           \* main's `then` (seconds, a rational)
    squareRotation, \* main's `squareRotation` (seconds, a rational)
    pending,        \* number of render callbacks requested and not yet run
    frames,         \* number of render callbacks that have run
    image,          \* the Image of LoadTexture: "none", "loading", "loaded"
    lastFrame,      \* what the latest render callback did
    \* ---- the helper classes called on their own (SpecAPI)
    glA,            \* context driven by the pre-refactor inline helpers
    glB,            \* context driven by BufferFactory / ShaderProgramFactory
    retA,           \* value returned by the latest pre-refactor helper call
    retB,           \* value returned by the latest refactored helper call
    lastCall,       \* the latest helper call and its input
    calls,          \* number of helper calls made
    \* ---- the math library called on its own (SpecVec)
    vop,            \* the function called last
    vargs,          \* its actual arguments
    vout,           \* its result
    \* ---- APP.Player (SpecPlayer)
    events,         \* the script handlers of each event type (empty before load)
    listeners,      \* the event types with a listener registered on document
    animationLoop,  \* the callback of renderer.setAnimationLoop: "null" or "animate"
    time,           \* animate's `time` (-1 = undefined)
    prevTime,       \* `prevTime` (-1 = undefined)
    clock,          \* the latest value of performance.now()
    playerCall,     \* the latest of play() and stop(): "none", "play", "stop"
    playerStep      \* what the latest call, document event or frame did

progVars == <<variant, pc, gl, env, program_data, buffer_data, texture, then,
              squareRotation, pending, frames, image, lastFrame>>
apiVars == <<glA, glB, retA, retB, lastCall, calls>>
vecVars == <<vop, vargs, vout>>
playerVars == <<events, listeners, animationLoop, time, prevTime, clock, playerCall, playerStep>>
vars == <<progVars, apiVars, vecVars, playerVars>>

\* ------------------------------------------------------------------------
\* Bounds of the model
\* ------------------------------------------------------------------------
MaxCalls == 2       \* helper calls per behaviour of SpecAPI
MaxFrames == 3      \* render callbacks per behaviour of Spec
MaxTime == 3        \* largest frame timestamp (milliseconds)
MaxImage == 4       \* largest width and height of the loaded image
MaxArgs == 5        \* largest number of actual arguments of a vec call
MaxScripts == 2     \* largest number of scripts of the project APP.Player loads
MaxNow == 2         \* largest value of performance.now()

\* ------------------------------------------------------------------------
\* The WebGL rendering context, as far as the programs use it
\* ------------------------------------------------------------------------
Null == 0

\* new Float32Array(data), on integers: exact up to 2^24, then round to even.
ToFloat32(x) ==
    LET a == IF x < 0 THEN -x ELSE x
        r == a % 4
        m == IF a <= 16777216 THEN a
             ELSE IF r = 1 THEN a - 1
             ELSE IF r = 3 THEN a + 1
             ELSE a
    IN IF x < 0 THEN -m ELSE m

\* new Uint16Array(data), on integers: modulo 2^16.
ToUint16(x) == x % 65536

Float32Array(data) == [i \in 1..Len(data) |-> ToFloat32(data[i])]
Uint16Array(data) == [i \in 1..Len(data) |-> ToUint16(data[i])]

LogEntry(op, target, obj, arg, data) ==
    [op |-> op, target |-> target, obj |-> obj, arg |-> arg, data |-> data]

\* canvas.getContext("webgl"): a fresh context. `strict` is the browser's
\* treatment of null passed for a WebGL object: TypeError (current WebIDL) or
\* an INVALID_VALUE error (WebGL 1.0 as first specified). The record also
\* counts the page's alert() calls and holds `thrown`, set when a call threw
\* and the running handler was abandoned.
\* `compiles` is the set of shader sources the driver compiles, `links` the
\* set of vertex shader sources whose program it links.
NewContext(driver) ==
    [strict |-> driver.strict, compiles |-> driver.compiles, links |-> driver.links,
     thrown |-> FALSE, errors |-> 0, alerts |-> 0,
     shaders |-> <<>>, programs |-> <<>>, buffers |-> <<>>, textures |-> <<>>,
     ARRAY_BUFFER |-> Null, ELEMENT_ARRAY_BUFFER |-> Null, TEXTURE_2D |-> Null,
     current_program |-> Null,
     attribs |-> [i \in 1..3 |-> [buffer |-> Null, size |-> 0, enabled |-> FALSE]],
     draws |-> 0,
     lastDraw |-> [program |-> Null, linked |-> FALSE, count |-> 0,
                   attribs |-> [i \in 1..3 |-> [buffer |-> Null, size |-> 0, enabled |-> FALSE]],
                   elements |-> Null, texture |-> Null, texel |-> "none"],
     log |-> <<>>]

\* getContext answered null: there is no context, and no call can be made.
NoContext == NewContext([strict |-> FALSE, compiles |-> {}, links |-> {}])

Logged(g, e) == [g EXCEPT !.log = Append(@, e)]
alert(g) == IF g.thrown THEN g ELSE [g EXCEPT !.alerts = @ + 1]
GLError(g) == [g EXCEPT !.errors = @ + 1]
\* null where the IDL wants an object
NullArgument(g) == IF g.strict THEN [g EXCEPT !.thrown = TRUE] ELSE GLError(g)

\* Every call returns [gl |-> the context after it, ret |-> its result].
Result(g, r) == [gl |-> g, ret |-> r]

\* const name = value; rest: With(value, LAMBDA name : rest)
With(value, Rest(_)) == Rest(value)

\* A call made after the handler threw is never made: every call leaves a
\* context with `thrown` set as it is.
createBuffer(g) ==
    LET id == Len(g.buffers) + 1
    IN IF g.thrown THEN Result(g, Null) ELSE
       Result(Logged([g EXCEPT !.buffers =
                        Append(@, [kind |-> "none", data |-> <<>>, usage |-> "none"])],
                     LogEntry("createBuffer", "", id, "", <<>>)), id)

bindBuffer(g, target, buffer) ==
    LET g1 == IF target = "ARRAY_BUFFER"
              THEN [g EXCEPT !.ARRAY_BUFFER = buffer]
              ELSE [g EXCEPT !.ELEMENT_ARRAY_BUFFER = buffer]
    IN IF g.thrown THEN g
       ELSE Logged(g1, LogEntry("bindBuffer", target, buffer, "", <<>>))

BoundBuffer(g, target) ==
    IF target = "ARRAY_BUFFER" THEN g.ARRAY_BUFFER ELSE g.ELEMENT_ARRAY_BUFFER

\* bufferData fills the buffer bound to target; with none bound it is an error.
bufferData(g, target, kind, src_data, usage) ==
    LET b == BoundBuffer(g, target)
        g1 == IF b = Null THEN GLError(g)
              ELSE [g EXCEPT !.buffers[b] =
                        [kind |-> kind, data |-> src_data, usage |-> usage]]
    IN IF g.thrown THEN g
       ELSE Logged(g1, LogEntry("bufferData", target, b, usage, src_data))

\* ------------------------------------------------------------------------
\* Buffers before the refactoring: the inline helpers of initBuffers
\* ------------------------------------------------------------------------
populateBuffer(g, target, webGLBuffer, kind, data) ==
    bufferData(bindBuffer(g, target, webGLBuffer), target, kind, data, "STATIC_DRAW")

populateElementBuffer(g, webGLBuffer, data) ==
    populateBuffer(g, "ELEMENT_ARRAY_BUFFER", webGLBuffer, "Uint16Array", Uint16Array(data))

populateArrayBuffer(g, webGLBuffer, data) ==
    populateBuffer(g, "ARRAY_BUFFER", webGLBuffer, "Float32Array", Float32Array(data))

\* ------------------------------------------------------------------------
\* Buffers after the refactoring: BufferFactory and BufferedObject
\* ------------------------------------------------------------------------
CreateBuffer(g) == createBuffer(g)

BindBuffer(g, target, buffer) == bindBuffer(g, target, buffer)

BindAttributeBuffer(g, buffer) == BindBuffer(g, "ARRAY_BUFFER", buffer)

BindIndexBuffer(g, buffer) == BindBuffer(g, "ELEMENT_ARRAY_BUFFER", buffer)

BufferData(g, target, kind, src_data, usage) == bufferData(g, target, kind, src_data, usage)

BufferAttributeData(g, buffer, src_data) ==
    BufferData(BindAttributeBuffer(g, buffer), "ARRAY_BUFFER",
               "Float32Array", Float32Array(src_data), "STATIC_DRAW")

\* BufferIndexData with the typed copy of BufferAttributeData
BufferIndexData_asFloat32(g, buffer, src_data) ==
    BufferData(BindIndexBuffer(g, buffer), "ELEMENT_ARRAY_BUFFER",
               "Float32Array", Float32Array(src_data), "STATIC_DRAW")

BufferIndexData(g, buffer, src_data) ==
    BufferData(BindIndexBuffer(g, buffer), "ELEMENT_ARRAY_BUFFER",
               "Uint16Array", Uint16Array(src_data), "STATIC_DRAW")

CreateAttributeBuffer(g, data) ==
    With(CreateBuffer(g), LAMBDA attribute_buffer :
    Result(BufferAttributeData(attribute_buffer.gl, attribute_buffer.ret, data),
           attribute_buffer.ret))

CreateIndexBuffer(g, data) ==
    With(CreateBuffer(g), LAMBDA index_buffer :
    Result(BufferIndexData(index_buffer.gl, index_buffer.ret, data),
           index_buffer.ret))

\* A JavaScript object is a function from its property names. Reading a
\* property the object lacks gives undefined; an array, even an empty one,
\* is truthy.
Undefined == -1
Has(object, key) == key \in DOMAIN object
Falsy(v) == v = Null \/ v = Undefined

\* BufferedObject whose fill falls back on the position buffer
BufferedObject_sharing(g, position, fill, normal, index) ==
    With(IF Falsy(position) THEN createBuffer(g) ELSE Result(g, position), LAMBDA p :
    With(IF Falsy(fill) THEN Result(p.gl, p.ret) ELSE Result(p.gl, fill), LAMBDA f :
    With(IF Falsy(normal) THEN createBuffer(f.gl) ELSE Result(f.gl, normal), LAMBDA n :
    With(IF Falsy(index) THEN createBuffer(n.gl) ELSE Result(n.gl, index), LAMBDA i :
    Result(i.gl, [position |-> p.ret, fill |-> f.ret,
                  normal |-> n.ret, index |-> i.ret])))))

\* new BufferedObject(gl, position, fill, normal, index)
BufferedObject(g, position, fill, normal, index) ==
    With(IF Falsy(position) THEN createBuffer(g) ELSE Result(g, position), LAMBDA p :
    With(IF Falsy(fill) THEN createBuffer(p.gl) ELSE Result(p.gl, fill), LAMBDA f :
    With(IF Falsy(normal) THEN createBuffer(f.gl) ELSE Result(f.gl, normal), LAMBDA n :
    With(IF Falsy(index) THEN createBuffer(n.gl) ELSE Result(n.gl, index), LAMBDA i :
    Result(i.gl, [position |-> p.ret, fill |-> f.ret,
                  normal |-> n.ret, index |-> i.ret])))))

BufferObject(g, object_data) ==
    With(IF Has(object_data, "position")
         THEN CreateAttributeBuffer(g, object_data.position)
         ELSE Result(g, Undefined), LAMBDA p :
    With(IF Has(object_data, "fill")
         THEN CreateAttributeBuffer(p.gl, object_data.fill)
         ELSE Result(p.gl, Undefined), LAMBDA f :
    With(IF Has(object_data, "normal")
         THEN CreateAttributeBuffer(f.gl, object_data.normal)
         ELSE Result(f.gl, Undefined), LAMBDA n :
    With(IF Has(object_data, "index")
         THEN CreateIndexBuffer(n.gl, object_data.index)
         ELSE Result(n.gl, Undefined), LAMBDA i :
    BufferedObject(i.gl, p.ret, f.ret, n.ret, i.ret)))))

\* ------------------------------------------------------------------------
\* The context's shader and program calls
\* ------------------------------------------------------------------------
createShader(g, type) ==
    LET id == Len(g.shaders) + 1
        sh == [type |-> type, source |-> "", compiled |-> FALSE, deleted |-> FALSE]
    IN IF g.thrown THEN Result(g, Null) ELSE
       Result(Logged([g EXCEPT !.shaders = Append(@, sh)],
                     LogEntry("createShader", type, id, "", <<>>)), id)

shaderSource(g, shader, source) ==
    IF g.thrown THEN g
    ELSE Logged(IF shader = Null THEN NullArgument(g)
                ELSE [g EXCEPT !.shaders[shader].source = source],
                LogEntry("shaderSource", "", shader, source, <<>>))

\* The driver decides whether a source compiles.
compileShader(g, shader) ==
    IF g.thrown THEN g
    ELSE Logged(IF shader = Null THEN NullArgument(g)
                ELSE [g EXCEPT !.shaders[shader].compiled =
                          g.shaders[shader].source \in g.compiles],
                LogEntry("compileShader", "", shader, "", <<>>))

getShaderParameter(g, shader, pname) ==
    IF g.thrown THEN Result(g, FALSE)
    ELSE IF shader = Null THEN Result(NullArgument(g), FALSE)
    ELSE Result(Logged(g, LogEntry("getShaderParameter", "", shader, pname, <<>>)),
                IF pname = "COMPILE_STATUS" THEN g.shaders[shader].compiled
                ELSE IF pname = "DELETE_STATUS" THEN g.shaders[shader].deleted
                ELSE FALSE)

getShaderInfoLog(g, shader) ==
    IF g.thrown THEN g
    ELSE Logged(g, LogEntry("getShaderInfoLog", "", shader, "", <<>>))

deleteShader(g, shader) ==
    IF g.thrown THEN g
    ELSE Logged(IF shader = Null THEN g
                ELSE [g EXCEPT !.shaders[shader].deleted = TRUE],
                LogEntry("deleteShader", "", shader, "", <<>>))

createProgram(g) ==
    LET id == Len(g.programs) + 1
    IN IF g.thrown THEN Result(g, Null) ELSE
       Result(Logged([g EXCEPT !.programs = Append(@, [attached |-> <<>>, linked |-> FALSE])],
                     LogEntry("createProgram", "", id, "", <<>>)), id)

attachShader(g, program, shader) ==
    IF g.thrown THEN g
    ELSE Logged(IF program = Null \/ shader = Null THEN NullArgument(g)
                ELSE [g EXCEPT !.programs[program].attached = Append(@, shader)],
                LogEntry("attachShader", "", program, "", <<shader>>))

\* The shader of the given type attached to the program (Null when none).
AttachedOfType(g, program, type) ==
    LET at == g.programs[program].attached
        is == {i \in 1..Len(at) : g.shaders[at[i]].type = type}
    IN IF is = {} THEN Null ELSE at[CHOOSE i \in is : \A j \in is : i <= j]

\* Linking needs a compiled vertex and a compiled fragment shader; the driver
\* decides the rest.
LinkSucceeds(g, program) ==
    LET v == AttachedOfType(g, program, "VERTEX_SHADER")
        f == AttachedOfType(g, program, "FRAGMENT_SHADER")
    IN /\ v # Null /\ f # Null
       /\ g.shaders[v].compiled /\ g.shaders[f].compiled
       /\ g.shaders[v].source \in g.links

linkProgram(g, program) ==
    IF g.thrown THEN g
    ELSE Logged(IF program = Null THEN NullArgument(g)
                ELSE [g EXCEPT !.programs[program].linked = LinkSucceeds(g, program)],
                LogEntry("linkProgram", "", program, "", <<>>))

getProgramParameter(g, program, pname) ==
    IF g.thrown THEN Result(g, FALSE)
    ELSE IF program = Null THEN Result(NullArgument(g), FALSE)
    ELSE Result(Logged(g, LogEntry("getProgramParameter", "", program, pname, <<>>)),
                pname = "LINK_STATUS" /\ g.programs[program].linked)

getProgramInfoLog(g, program) ==
    IF g.thrown THEN g
    ELSE Logged(g, LogEntry("getProgramInfoLog", "", program, "", <<>>))

\* The attributes and uniforms each vertex shader source (with its fragment
\* shader) declares, in order.
Attributes(source) ==
    IF source = "flat_vertex_shader_source"
    THEN <<"aVertexPosition", "aVertexColor">>
    ELSE IF source = "texture_vertex_shader_source"
    THEN <<"aVertexPosition", "aTextureCoord">>
    ELSE IF source = "_vertex_shader_source"
    THEN <<"aVertexPosition", "aVertexNormal", "aTextureCoord">>
    ELSE <<>>

Uniforms(source) ==
    IF source = "flat_vertex_shader_source"
    THEN <<"uModelViewMatrix", "uProjectionMatrix">>
    ELSE IF source = "texture_vertex_shader_source"
    THEN <<"uModelViewMatrix", "uProjectionMatrix", "uSampler">>
    ELSE IF source = "_vertex_shader_source"
    THEN <<"uNormalMatrix", "uModelViewMatrix", "uProjectionMatrix", "uSampler">>
    ELSE <<>>

IndexOf(seq, x) ==
    IF \E i \in 1..Len(seq) : seq[i] = x
    THEN CHOOSE i \in 1..Len(seq) : seq[i] = x
    ELSE 0

ProgramSource(g, program) ==
    LET v == AttachedOfType(g, program, "VERTEX_SHADER")
    IN IF v = Null THEN "" ELSE g.shaders[v].source

\* getAttribLocation: the attribute's index, -1 when the program is not
\* linked or has no such attribute.
getAttribLocation(g, program, name) ==
    IF g.thrown THEN Result(g, -1)
    ELSE IF program = Null THEN Result(NullArgument(g), -1)
    ELSE Result(Logged(IF g.programs[program].linked THEN g ELSE GLError(g),
                       LogEntry("getAttribLocation", "", program, name, <<>>)),
                IF g.programs[program].linked
                THEN IndexOf(Attributes(ProgramSource(g, program)), name) - 1
                ELSE -1)

\* getUniformLocation: a location (its position, from 1), null when the
\* program is not linked or has no such uniform.
getUniformLocation(g, program, name) ==
    IF g.thrown THEN Result(g, Null)
    ELSE IF program = Null THEN Result(NullArgument(g), Null)
    ELSE Result(Logged(IF g.programs[program].linked THEN g ELSE GLError(g),
                       LogEntry("getUniformLocation", "", program, name, <<>>)),
                IF g.programs[program].linked
                THEN IndexOf(Uniforms(ProgramSource(g, program)), name)
                ELSE Null)

\* ------------------------------------------------------------------------
\* Shader programs before the refactoring (first revision of shaders.js)
\* ------------------------------------------------------------------------
\* main's program_data when initShaderProgram returned null
NullData ==
    [isNull |-> TRUE, program |-> Null,
     attribLocations |-> [vertexPosition |-> Undefined, vertexNormal |-> Undefined,
                          vertexColor |-> Undefined],
     uniformLocations |-> [projectionMatrix |-> Null, modelViewMatrix |-> Null,
                           normalMatrix |-> Null, uSampler |-> Null]]

loadShader(g, type, source) ==
    With(createShader(g, type), LAMBDA shader :
    With(getShaderParameter(
             compileShader(shaderSource(shader.gl, shader.ret, source), shader.ret),
             shader.ret, "COMPILE_STATUS"), LAMBDA status :
    IF ~status.ret
    THEN Result(deleteShader(alert(getShaderInfoLog(status.gl, shader.ret)), shader.ret),
                Null)
    ELSE Result(status.gl, shader.ret)))

\* class ProgramData of the first revision: no vertexNormal, no normalMatrix.
ProgramData(g, shader_program, mode) ==
    With(getAttribLocation(g, shader_program, "aVertexPosition"), LAMBDA vp :
    With(getAttribLocation(vp.gl, shader_program, mode), LAMBDA vc :
    With(getUniformLocation(vc.gl, shader_program, "uProjectionMatrix"), LAMBDA pm :
    With(getUniformLocation(pm.gl, shader_program, "uModelViewMatrix"), LAMBDA mv :
    With(getUniformLocation(mv.gl, shader_program, "uSampler"), LAMBDA us :
    Result(us.gl,
           [isNull |-> FALSE, program |-> shader_program,
            attribLocations |-> [vertexPosition |-> vp.ret, vertexNormal |-> Undefined,
                                 vertexColor |-> vc.ret],
            uniformLocations |-> [projectionMatrix |-> pm.ret, modelViewMatrix |-> mv.ret,
                                  normalMatrix |-> Null, uSampler |-> us.ret]]))))))

FlatProgramData(g, shader_program) == ProgramData(g, shader_program, "aVertexColor")

TexturedProgramData(g, shader_program) == ProgramData(g, shader_program, "aTextureCoord")

\* One program of initShaderProgram: load both shaders, create, attach, link,
\* test LINK_STATUS. ret is the program, Null when linking failed.
LinkedProgramOrNull(g, vertex_source, fragment_source) ==
    With(loadShader(g, "VERTEX_SHADER", vertex_source), LAMBDA vertex_shader :
    With(loadShader(vertex_shader.gl, "FRAGMENT_SHADER", fragment_source),
         LAMBDA fragment_shader :
    With(createProgram(fragment_shader.gl), LAMBDA shader_program :
    With(getProgramParameter(
             linkProgram(
                 attachShader(
                     attachShader(shader_program.gl, shader_program.ret, vertex_shader.ret),
                     shader_program.ret, fragment_shader.ret),
                 shader_program.ret),
             shader_program.ret, "LINK_STATUS"), LAMBDA status :
    IF ~status.ret
    THEN Result(alert(getProgramInfoLog(status.gl, shader_program.ret)), Null)
    ELSE Result(status.gl, shader_program.ret)))))

initShaderProgram(g) ==
    With(LinkedProgramOrNull(g, "flat_vertex_shader_source",
                             "flat_fragment_shader_source"), LAMBDA flat :
    IF flat.ret = Null THEN Result(flat.gl, NullData)
    ELSE
    With(FlatProgramData(flat.gl, flat.ret), LAMBDA flat_program_data :
    With(LinkedProgramOrNull(flat_program_data.gl, "texture_vertex_shader_source",
                             "texture_fragment_shader_source"), LAMBDA textured :
    IF textured.ret = Null THEN Result(textured.gl, NullData)
    ELSE TexturedProgramData(textured.gl, textured.ret))))

\* ------------------------------------------------------------------------
\* Shader programs after the refactoring: ShaderProgramFactory
\* ------------------------------------------------------------------------
\* compile_status naming the wrong parameter
compile_status_asDeleteStatus == "DELETE_STATUS"

compile_status == "COMPILE_STATUS"

CreateProgram(g) == createProgram(g)
CreateShader(g, type) == createShader(g, type)
DeleteShader(g, shader) == deleteShader(g, shader)
ShaderSource(g, shader, source) == shaderSource(g, shader, source)
CompileShader(g, shader) == compileShader(g, shader)
GetShaderParameter(g, shader, pname) == getShaderParameter(g, shader, pname)
GetShaderInfoLog(g, shader) == getShaderInfoLog(g, shader)
AttachShader(g, program, shader) == attachShader(g, program, shader)
LinkProgram(g, program) == linkProgram(g, program)

LoadShader(g, type, source) ==
    With(CreateShader(g, type), LAMBDA shader :
    With(GetShaderParameter(
             CompileShader(ShaderSource(shader.gl, shader.ret, source), shader.ret),
             shader.ret, compile_status), LAMBDA status :
    IF ~status.ret
    THEN Result(DeleteShader(alert(GetShaderInfoLog(status.gl, shader.ret)), shader.ret),
                Null)
    ELSE Result(status.gl, shader.ret)))

LoadVertexShader(g) == LoadShader(g, "VERTEX_SHADER", "_vertex_shader_source")

LoadFragmentShader(g) == LoadShader(g, "FRAGMENT_SHADER", "_fragment_shader_source")

\* The program is created first; each shader is loaded where it is attached.
CreateShaderProgram(g) ==
    With(CreateProgram(g), LAMBDA shader_program :
    With(LoadVertexShader(shader_program.gl), LAMBDA vertex_shader :
    With(LoadFragmentShader(
             AttachShader(vertex_shader.gl, shader_program.ret, vertex_shader.ret)),
         LAMBDA fragment_shader :
    Result(LinkProgram(
               AttachShader(fragment_shader.gl, shader_program.ret, fragment_shader.ret),
               shader_program.ret),
           shader_program.ret))))

\* class ProgramData of the refactored revision
ProgramDataLit(g, shader_program, mode) ==
    With(getAttribLocation(g, shader_program, "aVertexPosition"), LAMBDA vp :
    With(getAttribLocation(vp.gl, shader_program, "aVertexNormal"), LAMBDA vn :
    With(getAttribLocation(vn.gl, shader_program, mode), LAMBDA vc :
    With(getUniformLocation(vc.gl, shader_program, "uProjectionMatrix"), LAMBDA pm :
    With(getUniformLocation(pm.gl, shader_program, "uModelViewMatrix"), LAMBDA mv :
    With(getUniformLocation(mv.gl, shader_program, "uNormalMatrix"), LAMBDA nm :
    With(getUniformLocation(nm.gl, shader_program, "uSampler"), LAMBDA us :
    Result(us.gl,
           [isNull |-> FALSE, program |-> shader_program,
            attribLocations |-> [vertexPosition |-> vp.ret, vertexNormal |-> vn.ret,
                                 vertexColor |-> vc.ret],
            uniformLocations |-> [projectionMatrix |-> pm.ret, modelViewMatrix |-> mv.ret,
                                  normalMatrix |-> nm.ret, uSampler |-> us.ret]]))))))))

TexturedProgramDataLit(g, shader_program) == ProgramDataLit(g, shader_program, "aTextureCoord")

initShaderProgramFactory(g) ==
    With(CreateShaderProgram(g), LAMBDA shader_program :
    TexturedProgramDataLit(shader_program.gl, shader_program.ret))

\* ------------------------------------------------------------------------
\* The cube (cube.js)
\* ------------------------------------------------------------------------
positions ==
    << -1, -1, 1, 1, -1, 1, 1, 1, 1, -1, 1, 1,
       -1, -1, -1, -1, 1, -1, 1, 1, -1, 1, -1, -1,
       -1, 1, -1, -1, 1, 1, 1, 1, 1, 1, 1, -1,
       -1, -1, -1, 1, -1, -1, 1, -1, 1, -1, -1, 1,
       1, -1, -1, 1, 1, -1, 1, 1, 1, 1, -1, 1,
       -1, -1, -1, -1, -1, 1, -1, 1, 1, -1, 1, -1 >>

\* Duplicate with the repetition left out: an_array once, whatever n_times is.
Duplicate_once(an_array, n_times) == an_array

\* Duplicate(an_array, n_times): an_array concatenated n_times.
RECURSIVE Duplicate(_, _)
Duplicate(an_array, n_times) ==
    IF n_times = 0 THEN <<>> ELSE Duplicate(an_array, n_times - 1) \o an_array

face_colors ==
    << <<1, 1, 1, 1>>,
       <<1, 0, 0, 1>>,
       <<0, 1, 0, 1>>,
       <<0, 0, 1, 1>>,
       <<1, 1, 0, 1>>,
       <<1, 0, 1, 1>> >>

\* face_colors.reduce(...): each face colour four times, face after face.
RECURSIVE ReduceFaceColors(_)
ReduceFaceColors(n) ==
    IF n = 0 THEN <<>>
    ELSE ReduceFaceColors(n - 1) \o Duplicate(face_colors[n], 4)

colors == ReduceFaceColors(Len(face_colors))

indices ==
    << 0, 1, 2, 0, 2, 3,
       4, 5, 6, 4, 6, 7,
       8, 9, 10, 8, 10, 11,
       12, 13, 14, 12, 14, 15,
       16, 17, 18, 16, 18, 19,
       20, 21, 22, 20, 22, 23 >>

texture_coordinates ==
    << 0, 0, 1, 0, 1, 1, 0, 1,
       0, 0, 1, 0, 1, 1, 0, 1,
       0, 0, 1, 0, 1, 1, 0, 1,
       0, 0, 1, 0, 1, 1, 0, 1,
       0, 0, 1, 0, 1, 1, 0, 1,
       0, 0, 1, 0, 1, 1, 0, 1 >>

normals ==
    << 0, 0, 1, 0, 0, 1, 0, 0, 1, 0, 0, 1,
       0, 0, -1, 0, 0, -1, 0, 0, -1, 0, 0, -1,
       0, 1, 0, 0, 1, 0, 0, 1, 0, 0, 1, 0,
       0, -1, 0, 0, -1, 0, 0, -1, 0, 0, -1, 0,
       1, 0, 0, 1, 0, 0, 1, 0, 0, 1, 0, 0,
       -1, 0, 0, -1, 0, 0, -1, 0, 0, -1, 0, 0 >>

\* new CubeObject(positions, indices, colors, texture, normals): the object's
\* properties are the five getters.
CubeObject(p, i, c, t, n) ==
    [positions |-> p, indices |-> i, colors |-> c, textures |-> t, normals |-> n]

cube_data == CubeObject(positions, indices, colors, texture_coordinates, normals)

\* The square (the arrays of the first square program)
square_positions == << -1, 1, 1, 1, -1, -1, 1, -1 >>
square_colors == << 1, 1, 1, 1,  1, 0, 0, 1,  0, 1, 0, 1,  0, 0, 1, 1 >>

\* ------------------------------------------------------------------------
\* The context's texture calls
\* ------------------------------------------------------------------------
createTexture(g) ==
    LET id == Len(g.textures) + 1
        t == [content |-> "none", width |-> 0, height |-> 0, mipmapped |-> FALSE,
              min_filter |-> "NEAREST_MIPMAP_LINEAR",
              wrap_s |-> "REPEAT", wrap_t |-> "REPEAT"]
    IN IF g.thrown THEN Result(g, Null) ELSE
       Result(Logged([g EXCEPT !.textures = Append(@, t)],
                     LogEntry("createTexture", "", id, "", <<>>)), id)

bindTexture(g, target, tex) ==
    IF g.thrown THEN g
    ELSE Logged([g EXCEPT !.TEXTURE_2D = tex],
                LogEntry("bindTexture", target, tex, "", <<>>))

\* texImage2D writes level 0 of the texture bound to TEXTURE_2D.
texImage2D(g, target, content, width, height) ==
    LET t == g.TEXTURE_2D
    IN IF g.thrown THEN g
       ELSE Logged(IF t = Null THEN GLError(g)
                   ELSE [g EXCEPT !.textures[t].content = content,
                                  !.textures[t].width = width,
                                  !.textures[t].height = height,
                                  !.textures[t].mipmapped = FALSE],
                   LogEntry("texImage2D", target, t, content, <<width, height>>))

\* value & (value - 1), on naturals
RECURSIVE BitAnd(_, _)
BitAnd(a, b) ==
    IF a = 0 \/ b = 0 THEN 0
    ELSE 2 * BitAnd(a \div 2, b \div 2) + (IF a % 2 = 1 /\ b % 2 = 1 THEN 1 ELSE 0)

isPowerOf2(value) == value # 0 /\ BitAnd(value, value - 1) = 0

\* What the context itself takes for a power of two.
PowerOfTwo(n) == n \in {1, 2, 4, 8, 16, 32, 64}

\* generateMipmap is INVALID_OPERATION for a texture that is not a power of
\* two in both dimensions.
generateMipmap(g, target) ==
    LET t == g.TEXTURE_2D
    IN IF g.thrown THEN g
       ELSE Logged(IF t = Null \/ ~PowerOfTwo(g.textures[t].width)
                      \/ ~PowerOfTwo(g.textures[t].height)
                   THEN GLError(g)
                   ELSE [g EXCEPT !.textures[t].mipmapped = TRUE],
                   LogEntry("generateMipmap", target, t, "", <<>>))

texParameteri(g, target, pname, param) ==
    LET t == g.TEXTURE_2D
    IN IF g.thrown THEN g
       ELSE Logged(IF t = Null THEN GLError(g)
                   ELSE IF pname = "TEXTURE_WRAP_S" THEN [g EXCEPT !.textures[t].wrap_s = param]
                   ELSE IF pname = "TEXTURE_WRAP_T" THEN [g EXCEPT !.textures[t].wrap_t = param]
                   ELSE IF pname = "TEXTURE_MIN_FILTER"
                   THEN [g EXCEPT !.textures[t].min_filter = param]
                   ELSE GLError(g),
                   LogEntry("texParameteri", target, t, pname, <<>>))

\* Texture completeness of WebGL 1: a mipmapping filter needs the whole
\* mipmap chain (a 1x1 image is its own chain); a texture that is not a power
\* of two needs CLAMP_TO_EDGE and a filter that does not mipmap.
Complete(t) ==
    LET mips == t.min_filter \notin {"NEAREST", "LINEAR"}
        pot == PowerOfTwo(t.width) /\ PowerOfTwo(t.height)
    IN /\ t.content # "none"
       /\ mips => (pot /\ (t.mipmapped \/ (t.width = 1 /\ t.height = 1)))
       /\ ~pot => (t.wrap_s = "CLAMP_TO_EDGE" /\ t.wrap_t = "CLAMP_TO_EDGE")

\* What a sampler reads from the texture bound to TEXTURE_2D: the content of
\* a complete texture, opaque black otherwise.
Texel(g) ==
    IF g.TEXTURE_2D = Null THEN "black"
    ELSE IF Complete(g.textures[g.TEXTURE_2D]) THEN g.textures[g.TEXTURE_2D].content
    ELSE "black"

\* ------------------------------------------------------------------------
\* The context's drawing calls
\* ------------------------------------------------------------------------
\* clearColor, clearDepth, enable, depthFunc, clear, activeTexture, uniform*:
\* calls whose effect no claim reads
call(g, name) ==
    IF g.thrown THEN g ELSE Logged(g, LogEntry(name, "", Null, "", <<>>))

\* vertexAttribPointer and enableVertexAttribArray: attribute `index` reads
\* the buffer bound to ARRAY_BUFFER. A location of -1 is no attribute.
vertexAttribPointer(g, index, size) ==
    IF g.thrown THEN g
    ELSE Logged(IF index \notin 0..2 \/ g.ARRAY_BUFFER = Null THEN GLError(g)
                ELSE [g EXCEPT !.attribs[index + 1].buffer = g.ARRAY_BUFFER,
                               !.attribs[index + 1].size = size],
                LogEntry("vertexAttribPointer", "", index, "", <<size>>))

enableVertexAttribArray(g, index) ==
    IF g.thrown THEN g
    ELSE Logged(IF index \notin 0..2 THEN GLError(g)
                ELSE [g EXCEPT !.attribs[index + 1].enabled = TRUE],
                LogEntry("enableVertexAttribArray", "", index, "", <<>>))

useProgram(g, program) ==
    IF g.thrown THEN g
    ELSE Logged(IF program # Null /\ ~g.programs[program].linked THEN GLError(g)
                ELSE [g EXCEPT !.current_program = program],
                LogEntry("useProgram", "", program, "", <<>>))

\* drawElements: the call is counted, and what it reads is kept.
drawElements(g, mode, count) ==
    LET d == [program |-> g.current_program,
              linked |-> g.current_program # Null,
              count |-> count, attribs |-> g.attribs,
              elements |-> g.ELEMENT_ARRAY_BUFFER,
              texture |-> g.TEXTURE_2D, texel |-> Texel(g)]
    IN IF g.thrown THEN g
       ELSE Logged([(IF g.current_program = Null THEN GLError(g) ELSE g)
                       EXCEPT !.draws = @ + 1, !.lastDraw = d],
                   LogEntry("drawElements", mode, Null, "", <<count>>))

\* ------------------------------------------------------------------------
\* LoadTexture (textures.js)
\* ------------------------------------------------------------------------
\* The synchronous part: create, bind, upload the 1x1 opaque green pixel.
\* `image.src = url` starts the load; its handler runs later, as a task.
LoadTexture(g, url) ==
    With(createTexture(g), LAMBDA tex :
    Result(texImage2D(bindTexture(tex.gl, "TEXTURE_2D", tex.ret),
                      "TEXTURE_2D", "pixels", 1, 1),
           tex.ret))

\* image.onload without the test of the image's size
image_onload_alwaysMipmap(g, tex, width, height) ==
    generateMipmap(
        texImage2D(bindTexture(g, "TEXTURE_2D", tex), "TEXTURE_2D", "image", width, height),
        "TEXTURE_2D")

\* image.onload of LoadTexture, for an image of the given size
image_onload(g, tex, width, height) ==
    With(texImage2D(bindTexture(g, "TEXTURE_2D", tex), "TEXTURE_2D", "image", width, height),
         LAMBDA g2 :
    IF isPowerOf2(width) /\ isPowerOf2(height)
    THEN generateMipmap(g2, "TEXTURE_2D")
    ELSE texParameteri(
             texParameteri(
                 texParameteri(g2, "TEXTURE_2D", "TEXTURE_WRAP_S", "CLAMP_TO_EDGE"),
                 "TEXTURE_2D", "TEXTURE_WRAP_T", "CLAMP_TO_EDGE"),
             "TEXTURE_2D", "TEXTURE_MIN_FILTER", "LINEAR"))

\* ------------------------------------------------------------------------
\* Seconds: exact rationals [num, den], den > 0, in lowest terms
\* ------------------------------------------------------------------------
RECURSIVE Gcd(_, _)
Gcd(a, b) == IF b = 0 THEN a ELSE Gcd(b, a % b)

Abs(x) == IF x < 0 THEN -x ELSE x

Rat(n, d) ==
    LET k == Gcd(Abs(n), d)
    IN [num |-> n \div k, den |-> d \div k]

RatAdd(a, b) == Rat(a.num * b.den + b.num * a.den, a.den * b.den)
RatSub(a, b) == Rat(a.num * b.den - b.num * a.den, a.den * b.den)
RatMul(a, b) == Rat(a.num * b.num, a.den * b.den)
RatLeq(a, b) == a.num * b.den <= b.num * a.den

\* now *= 0.001
ToSeconds(now) == RatMul(Rat(now, 1), Rat(1, 1000))

\* ------------------------------------------------------------------------
\* Drawing a frame
\* ------------------------------------------------------------------------
\* Reading a property of null throws a TypeError: the handler is abandoned.
Throw(g) == [g EXCEPT !.thrown = TRUE]
ReadProperty(g, object) == IF object.isNull THEN Throw(g) ELSE g

ClearScene(g) ==
    call(call(call(call(call(g, "clearColor"), "clearDepth"), "enable"),
              "depthFunc"), "clear")

\* One attribute block: bind the buffer, point the attribute at it, enable it.
\* The arguments of vertexAttribPointer are read after bindBuffer was called.
AttribBlock(g, program_data_, buffer, location, numComponents) ==
    LET g1 == ReadProperty(bindBuffer(g, "ARRAY_BUFFER", buffer), program_data_)
    IN enableVertexAttribArray(vertexAttribPointer(g1, location, numComponents), location)

\* drawCubeScene of main.js
drawCubeScene(g, programInfo, buffers) ==
    LET g1 == AttribBlock(ClearScene(g), programInfo, buffers.cube_position,
                          programInfo.attribLocations.vertexPosition, 3)
        g2 == AttribBlock(g1, programInfo, buffers.cube_color,
                          programInfo.attribLocations.vertexColor, 4)
        g3 == bindBuffer(g2, "ELEMENT_ARRAY_BUFFER", buffers.cube_indices)
        g4 == useProgram(g3, programInfo.program)
        g5 == call(call(g4, "uniformMatrix4fv"), "uniformMatrix4fv")
    IN drawElements(g5, "TRIANGLES", 36)

\* drawTextureCubeScene of the textured cube program
drawTextureCubeScene(g, program_data_, buffer_data_, texture_) ==
    LET g1 == AttribBlock(ClearScene(g), program_data_, buffer_data_.position,
                          program_data_.attribLocations.vertexPosition, 3)
        g2 == AttribBlock(g1, program_data_, buffer_data_.fill,
                          program_data_.attribLocations.vertexColor, 2)
        g3 == AttribBlock(g2, program_data_, buffer_data_.normal,
                          program_data_.attribLocations.vertexNormal, 3)
        g4 == bindTexture(call(g3, "activeTexture"), "TEXTURE_2D", texture_)
        g5 == bindBuffer(g4, "ELEMENT_ARRAY_BUFFER", buffer_data_.index)
        g6 == useProgram(g5, program_data_.program)
        g7 == call(call(call(call(g6, "uniform1i"), "uniformMatrix4fv"),
                        "uniformMatrix4fv"), "uniformMatrix4fv")
    IN drawElements(g7, "TRIANGLES", 36)

\* initBuffers of main.js: the buffers are created in two groups, each
\* populated after the group is created.
initBuffers(g) ==
    With(createBuffer(g), LAMBDA square_positionBuffer :
    With(createBuffer(square_positionBuffer.gl), LAMBDA square_colorBuffer :
    With(createBuffer(
             populateArrayBuffer(
                 populateArrayBuffer(square_colorBuffer.gl, square_positionBuffer.ret,
                                     square_positions),
                 square_colorBuffer.ret, square_colors)), LAMBDA cube_positionBuffer :
    With(createBuffer(cube_positionBuffer.gl), LAMBDA cube_colorBuffer :
    With(createBuffer(cube_colorBuffer.gl), LAMBDA cube_indexBuffer :
    Result(populateElementBuffer(
               populateArrayBuffer(
                   populateArrayBuffer(cube_indexBuffer.gl, cube_positionBuffer.ret,
                                       positions),
                   cube_colorBuffer.ret, colors),
               cube_indexBuffer.ret, indices),
           [square_position |-> square_positionBuffer.ret,
            square_color |-> square_colorBuffer.ret,
            cube_position |-> cube_positionBuffer.ret,
            cube_color |-> cube_colorBuffer.ret,
            cube_indices |-> cube_indexBuffer.ret]))))))

\* ------------------------------------------------------------------------
\* The programs: main, the render callback, the image's load handler
\* ------------------------------------------------------------------------
\* requestAnimationFrame(render): one more callback is pending.
requestAnimationFrame(n) == n + 1

NoBuffers == [position |-> Null, fill |-> Null, normal |-> Null, index |-> Null]

Zero == Rat(0, 1)

\* What main leaves behind: [pc, gl, program_data, buffer_data, texture,
\* pending, image]. A main that threw leaves no variables and no callback.
MainEnds(pc_, g, pd, bd, tx, n, img) ==
    [pc |-> pc_, gl |-> g, program_data |-> pd, buffer_data |-> bd,
     texture |-> tx, pending |-> n, image |-> img]

\* main without the test of the context
main_unchecked(context, driver) ==
    With(initShaderProgram(NewContext(driver)), LAMBDA program_data_ :
    With(initBuffers(program_data_.gl), LAMBDA buffers :
    IF buffers.gl.thrown
    THEN MainEnds("crashed", buffers.gl, NullData, NoBuffers, Null, 0, "none")
    ELSE MainEnds("running", buffers.gl, program_data_.ret, buffers.ret, Null,
                  requestAnimationFrame(0), "none")))

\* main of main.js (with initShaderProgram of the first shaders.js).
\* context: whether canvas.getContext("webgl") gave a context.
main(context, driver) ==
    IF ~context
    THEN MainEnds("noctx", alert(NoContext), NullData, NoBuffers, Null, 0, "none")
    ELSE
    With(initShaderProgram(NewContext(driver)), LAMBDA program_data_ :
    With(initBuffers(program_data_.gl), LAMBDA buffers :
    IF buffers.gl.thrown
    THEN MainEnds("crashed", buffers.gl, NullData, NoBuffers, Null, 0, "none")
    ELSE MainEnds("running", buffers.gl, program_data_.ret, buffers.ret, Null,
                  requestAnimationFrame(0), "none")))

\* main of the textured cube program.
mainTextured(context, driver) ==
    IF ~context
    THEN MainEnds("noctx", alert(NoContext), NullData, NoBuffers, Null, 0, "none")
    ELSE
    With(initShaderProgramFactory(NewContext(driver)), LAMBDA program_data_ :
    With(BufferObject(program_data_.gl, cube_data), LAMBDA buffer_data_ :
    With(LoadTexture(buffer_data_.gl, "./power_of_two_hd.jpg"), LAMBDA texture_ :
    IF texture_.gl.thrown
    THEN MainEnds("crashed", texture_.gl, NullData, NoBuffers, Null, 0, "none")
    ELSE MainEnds("running", texture_.gl, program_data_.ret, buffer_data_.ret,
                  texture_.ret, requestAnimationFrame(0), "loading"))))

FlatSources == {"flat_vertex_shader_source", "flat_fragment_shader_source",
                "texture_vertex_shader_source", "texture_fragment_shader_source"}
FlatVertexSources == {"flat_vertex_shader_source", "texture_vertex_shader_source"}
FactorySources == {"_vertex_shader_source", "_fragment_shader_source"}
FactoryVertexSources == {"_vertex_shader_source"}

Drivers(sources, vertex_sources) ==
    [strict : BOOLEAN, compiles : SUBSET sources, links : SUBSET vertex_sources]

NoFrame == [threw |-> FALSE, draws |-> 0, requested |-> 0, now |-> 0]

ProgramIdle(variants) ==
    /\ variant \in variants
    /\ pc = "start"
    /\ gl = NoContext
    /\ env = [context |-> "none", now |-> 0]
    /\ program_data = NullData
    /\ buffer_data = NoBuffers
    /\ texture = Null
    /\ then = Zero
    /\ squareRotation = Zero
    /\ pending = 0
    /\ frames = 0
    /\ image = "none"
    /\ lastFrame = NoFrame

ApiIdle ==
    /\ glA = NoContext
    /\ glB = NoContext
    /\ retA = Null
    /\ retB = Null
    /\ lastCall = [op |-> "none", before |-> 0, data |-> <<>>]
    /\ calls = 0

\* A JavaScript value of the math library: a number, an Array of values, or
\* the `arguments` object of a call (array-like, but not an Array).
\* `matrix` is the property the library sets on an Array (m.matrix = true);
\* a value without the property reads it as undefined, which is falsy.
\* `s` is the text of a string.
Value(t, v, s, items) == [t |-> t, v |-> v, s |-> s, items |-> items, matrix |-> FALSE]
Number(v) == Value("number", v, "", <<>>)
Array(items) == Value("array", 0, "", items)
Arguments(items) == Value("arguments", 0, "", items)
undefined == Value("undefined", 0, "", <<>>)

VecIdle ==
    /\ vop = "none"
    /\ vargs = <<>>
    /\ vout = undefined

\* What a step of the player did: the call, event or frame (op), the call
\* of play and stop before it (after), how many script handlers ran, what a
\* handler threw, whether an exception left the step, and whether the
\* exception was logged and the scene rendered.
PlayerStep(op, after, called, thrown, escaped, logged, rendered) ==
    [op |-> op, after |-> after, called |-> called, thrown |-> thrown,
     escaped |-> escaped, logged |-> logged, rendered |-> rendered]

\* new APP.Player(): var events = {}; var time, prevTime; nothing registered
PlayerIdle ==
    /\ events = <<>>
    /\ listeners = {}
    /\ animationLoop = "null"
    /\ time = -1
    /\ prevTime = -1
    /\ clock = 0
    /\ playerCall = "none"
    /\ playerStep = PlayerStep("none", "none", 0, "none", FALSE, FALSE, FALSE)

\* window.onload = main
MainRuns(m, context) ==
    /\ pc = "start"
    /\ pc' = m.pc
    /\ gl' = m.gl
    /\ program_data' = m.program_data
    /\ buffer_data' = m.buffer_data
    /\ texture' = m.texture
    /\ pending' = m.pending
    /\ image' = m.image
    /\ then' = Zero
    /\ squareRotation' = Zero
    /\ env' = [env EXCEPT !.context = IF context THEN "webgl" ELSE "null"]
    /\ UNCHANGED <<variant, frames, lastFrame>>
    /\ UNCHANGED <<apiVars, vecVars, playerVars>>

MainFlat ==
    /\ variant = "flat"
    /\ \E context \in BOOLEAN, driver \in Drivers(FlatSources, FlatVertexSources) :
           MainRuns(main(context, driver), context)

MainTextured ==
    /\ variant = "textured"
    /\ \E context \in BOOLEAN, driver \in Drivers(FactorySources, FactoryVertexSources) :
           MainRuns(mainTextured(context, driver), context)

\* render(now), given the context after its draw*Scene call. A draw that
\* threw abandons the callback before `then = now` and before the request.
render(now, drawn) ==
    /\ pending > 0
    /\ frames < MaxFrames
    /\ now \in env.now..MaxTime
    /\ squareRotation' = RatAdd(squareRotation, RatSub(ToSeconds(now), then))
    /\ gl' = drawn
    /\ then' = IF drawn.thrown THEN then ELSE ToSeconds(now)
    /\ pending' = IF drawn.thrown THEN pending - 1
                  ELSE requestAnimationFrame(pending - 1)
    /\ frames' = frames + 1
    /\ lastFrame' = [threw |-> drawn.thrown, draws |-> drawn.draws - gl.draws,
                     requested |-> IF drawn.thrown THEN 0 ELSE 1, now |-> now]
    /\ env' = [env EXCEPT !.now = now]
    /\ UNCHANGED <<variant, pc, program_data, buffer_data, texture, image>>
    /\ UNCHANGED <<apiVars, vecVars, playerVars>>

Handler(g) == [g EXCEPT !.thrown = FALSE]

RenderFlat ==
    /\ variant = "flat"
    /\ \E now \in 0..MaxTime :
           render(now, drawCubeScene(Handler(gl), program_data, buffer_data))

RenderTextured ==
    /\ variant = "textured"
    /\ \E now \in 0..MaxTime :
           render(now, drawTextureCubeScene(Handler(gl), program_data, buffer_data, texture))

\* The image finished loading: image.onload runs, between two callbacks.
ImageLoads ==
    /\ image = "loading"
    /\ \E width \in 1..MaxImage, height \in 1..MaxImage :
           gl' = image_onload(Handler(gl), texture, width, height)
    /\ image' = "loaded"
    /\ UNCHANGED <<variant, pc, env, program_data, buffer_data, texture, then,
                   squareRotation, pending, frames, lastFrame>>
    /\ UNCHANGED <<apiVars, vecVars, playerVars>>

Next == MainFlat \/ MainTextured \/ RenderFlat \/ RenderTextured \/ ImageLoads

Init == ProgramIdle({"flat", "textured"}) /\ ApiIdle /\ VecIdle /\ PlayerIdle

Spec == Init /\ [][Next]_vars

\* ------------------------------------------------------------------------
\* The helper classes called on their own: each call is made on two
\* contexts, on glA by the pre-refactor code and on glB by the refactored
\* code (BufferObject, which has no pre-refactor form, on both alike).
\* ------------------------------------------------------------------------
Arrays == {<<>>, <<1, 2>>, <<-1, 70000>>, <<16777217, 3>>}

ObjectArrays == {<<5>>, <<-1, 65537>>}

ObjectKeys == {"position", "fill", "normal", "index"}

\* Objects with any of the four properties, each an array
ObjectData == UNION {[keys -> ObjectArrays] : keys \in SUBSET ObjectKeys}

ApiDriver ==
    [strict |-> TRUE, compiles |-> {"good_source"}, links |-> {}]

InitAPI ==
    /\ ProgramIdle({"none"})
    /\ PlayerIdle
    /\ VecIdle
    /\ glA = NewContext(ApiDriver)
    /\ glB = NewContext(ApiDriver)
    /\ retA = Null
    /\ retB = Null
    /\ lastCall = [op |-> "none", before |-> 0, data |-> <<>>]
    /\ calls = 0

Called(op, a, b, data) ==
    /\ calls' = calls + 1
    /\ glA' = a.gl
    /\ retA' = a.ret
    /\ glB' = b.gl
    /\ retB' = b.ret
    /\ lastCall' = [op |-> op, before |-> Len(glB.buffers), data |-> data]
    /\ UNCHANGED <<progVars, vecVars, playerVars>>

\* const b = gl.createBuffer(); populateArrayBuffer(b, data)
InlineAttributeBuffer(g, data) ==
    With(createBuffer(g), LAMBDA b : Result(populateArrayBuffer(b.gl, b.ret, data), b.ret))

\* const b = gl.createBuffer(); populateElementBuffer(b, data)
InlineIndexBuffer(g, data) ==
    With(createBuffer(g), LAMBDA b : Result(populateElementBuffer(b.gl, b.ret, data), b.ret))

CallCreateAttributeBuffer ==
    /\ calls < MaxCalls
    /\ \E data \in Arrays :
        Called("CreateAttributeBuffer", InlineAttributeBuffer(glA, data),
               CreateAttributeBuffer(glB, data), data)

CallCreateIndexBuffer ==
    /\ calls < MaxCalls
    /\ \E data \in Arrays :
        Called("CreateIndexBuffer", InlineIndexBuffer(glA, data),
               CreateIndexBuffer(glB, data), data)

CallBufferObject ==
    /\ calls < MaxCalls
    /\ \E object_data \in ObjectData :
        Called("BufferObject", BufferObject(glA, object_data),
               BufferObject(glB, object_data), object_data)

CallLoadShader ==
    /\ calls < MaxCalls
    /\ \E type \in {"VERTEX_SHADER", "FRAGMENT_SHADER"}, source \in {"good_source", "bad_source"} :
        Called("LoadShader", loadShader(glA, type, source),
               LoadShader(glB, type, source), <<type, source>>)

NextAPI ==
    CallCreateAttributeBuffer \/ CallCreateIndexBuffer \/ CallBufferObject \/ CallLoadShader

SpecAPI == InitAPI /\ [][NextAPI]_vars

\* ------------------------------------------------------------------------
\* The vec constructors of the math library
\* ------------------------------------------------------------------------
\* Array.prototype.concat spreads an argument only when it is an Array (no
\* value here carries Symbol.isConcatSpreadable).
IsConcatSpreadable(value) == value.t = "array"

RECURSIVE ConcatItems(_)
ConcatItems(values) ==
    IF values = <<>> THEN <<>>
    ELSE (IF IsConcatSpreadable(Head(values)) THEN Head(values).items
          ELSE <<Head(values)>>) \o ConcatItems(Tail(values))

\* array.concat(...values)
concat(array, values) == Array(array.items \o ConcatItems(values))

\* Array.prototype.slice.apply(array): a copy of the array
slice(array) == Array([i \in 1..Len(array.items) |-> array.items[i]])

\* function _argumentsToArray(...args): args is the Array of the actual
\* arguments of this call; [].concat.apply([], copy) passes the copy's
\* elements to concat.
_argumentsToArray(args) == concat(Array(<<>>), slice(args).items)

\* switch (result.length) { case 0: push; case 1: push; ... } without break:
\* entered at case result.length, it runs every push from there on.
SwitchPush(result, pushes) ==
    IF Len(result.items) < Len(pushes)
    THEN Array(result.items \o SubSeq(pushes, Len(result.items) + 1, Len(pushes)))
    ELSE result

\* result.splice(0, n): the removed elements
splice(result, n) ==
    Array(SubSeq(result.items, 1, IF Len(result.items) < n THEN Len(result.items) ELSE n))

\* The vec functions pass their `arguments` object as the one actual argument.
vec2(arguments) ==
    splice(SwitchPush(_argumentsToArray(Array(<<arguments>>)),
                      <<Number(0), Number(0)>>), 2)

vec3(arguments) ==
    splice(SwitchPush(_argumentsToArray(Array(<<arguments>>)),
                      <<Number(0), Number(0), Number(0)>>), 3)

vec4(arguments) ==
    splice(SwitchPush(_argumentsToArray(Array(<<arguments>>)),
                      <<Number(0), Number(0), Number(0), Number(1)>>), 4)

\* m.matrix = true
SetMatrix(m) == [m EXCEPT !.matrix = TRUE]

\* v[0]: the element, undefined beyond the length
At(array, i) == IF i < Len(array.items) THEN array.items[i + 1] ELSE undefined

\* v.splice(0, n) as a statement: v without its first n elements
Spliced(v, n) ==
    Array(SubSeq(v.items, (IF Len(v.items) < n THEN Len(v.items) ELSE n) + 1, Len(v.items)))

\* v[0] = 1 on an empty v
SetFirst(v, x) == Array(<<x>> \o Tail(IF v.items = <<>> THEN <<x>> ELSE v.items))

\* The case 0 / case 1 branch of mat2: case 0 sets v[0] = 1 and falls through.
mat2_scalar(v) ==
    Array(<< vec2(Arguments(<<At(v, 0), Number(0)>>)),
             vec2(Arguments(<<Number(0), At(v, 0)>>)) >>)

mat2_default(v) ==
    Array(<< vec2(Arguments(<<v>>)),
             vec2(Arguments(<<Spliced(v, 2)>>)) >>)

mat2(arguments) ==
    With(_argumentsToArray(Array(<<arguments>>)), LAMBDA v :
    SetMatrix(IF Len(v.items) = 0 THEN mat2_scalar(SetFirst(v, Number(1)))
              ELSE IF Len(v.items) = 1 THEN mat2_scalar(v)
              ELSE mat2_default(v)))

mat3_scalar(v) ==
    Array(<< vec3(Arguments(<<At(v, 0), Number(0), Number(0)>>)),
             vec3(Arguments(<<Number(0), At(v, 0), Number(0)>>)),
             vec3(Arguments(<<Number(0), Number(0), At(v, 0)>>)) >>)

mat3_default(v) ==
    Array(<< vec3(Arguments(<<v>>)),
             vec3(Arguments(<<Spliced(v, 3)>>)),
             vec3(Arguments(<<Spliced(v, 6)>>)) >>)

mat3(arguments) ==
    With(_argumentsToArray(Array(<<arguments>>)), LAMBDA v :
    SetMatrix(IF Len(v.items) = 0 THEN mat3_scalar(SetFirst(v, Number(1)))
              ELSE IF Len(v.items) = 1 THEN mat3_scalar(v)
              ELSE mat3_default(v)))

mat4_scalar(v) ==
    Array(<< vec4(Arguments(<<At(v, 0), Number(0), Number(0), Number(0)>>)),
             vec4(Arguments(<<Number(0), At(v, 0), Number(0), Number(0)>>)),
             vec4(Arguments(<<Number(0), Number(0), At(v, 0), Number(0)>>)),
             vec4(Arguments(<<Number(0), Number(0), Number(0), At(v, 0)>>)) >>)

mat4_default(v) ==
    Array(<< vec4(Arguments(<<v>>)),
             vec4(Arguments(<<Spliced(v, 4)>>)),
             vec4(Arguments(<<Spliced(v, 8)>>)),
             vec4(Arguments(<<Spliced(v, 12)>>)) >>)

mat4(arguments) ==
    With(_argumentsToArray(Array(<<arguments>>)), LAMBDA v :
    SetMatrix(IF Len(v.items) = 0 THEN mat4_scalar(SetFirst(v, Number(1)))
              ELSE IF Len(v.items) = 1 THEN mat4_scalar(v)
              ELSE mat4_default(v)))

Values == {Number(2), Number(-7), Array(<<Number(3), Number(4)>>)}

Actuals == UNION {[1..n -> Values] : n \in 0..MaxArgs}

\* The actual arguments are chosen before the call.
InitVec ==
    /\ ProgramIdle({"none"})
    /\ PlayerIdle
    /\ ApiIdle
    /\ vop = "none"
    /\ vargs \in Actuals
    /\ vout = undefined

VecCalled(op, result) ==
    /\ vop' = op
    /\ vout' = result
    /\ UNCHANGED <<progVars, apiVars, vargs, playerVars>>

CallVec2 ==
    /\ vop = "none"
    /\ VecCalled("vec2", vec2(Arguments(vargs)))

CallVec3 ==
    /\ vop = "none"
    /\ VecCalled("vec3", vec3(Arguments(vargs)))

CallVec4 ==
    /\ vop = "none"
    /\ VecCalled("vec4", vec4(Arguments(vargs)))

CallMat2 ==
    /\ vop = "none"
    /\ VecCalled("mat2", mat2(Arguments(vargs)))

CallMat3 ==
    /\ vop = "none"
    /\ VecCalled("mat3", mat3(Arguments(vargs)))

CallMat4 ==
    /\ vop = "none"
    /\ VecCalled("mat4", mat4(Arguments(vargs)))

NextVec == CallVec2 \/ CallVec3 \/ CallVec4 \/ CallMat2 \/ CallMat3 \/ CallMat4

SpecVec == InitVec /\ [][NextVec]_vars

\* ------------------------------------------------------------------------
\* Properties
\* ------------------------------------------------------------------------
Last(seq, k) == SubSeq(seq, Len(seq) - k + 1, Len(seq))

EmptyBuffer == [kind |-> "none", data |-> <<>>, usage |-> "none"]

\* What a created and populated buffer leaves in the context g: the three
\* calls on that buffer, in order, its contents, and the binding of target.
CreatedAndPopulated(g, buffer, target, kind, copy) ==
    /\ buffer = lastCall.before + 1
    /\ Last(g.log, 3) = << LogEntry("createBuffer", "", buffer, "", <<>>),
                           LogEntry("bindBuffer", target, buffer, "", <<>>),
                           LogEntry("bufferData", target, buffer, "STATIC_DRAW", copy) >>
    /\ g.buffers[buffer] = [kind |-> kind, data |-> copy, usage |-> "STATIC_DRAW"]
    /\ BoundBuffer(g, target) = buffer

\* C1: for every input array CreateAttributeBuffer and CreateIndexBuffer do
\* what createBuffer followed by populateArrayBuffer / populateElementBuffer
\* did: createBuffer, bindBuffer(target, buffer), bufferData(target, typed
\* copy, STATIC_DRAW) on that buffer, ARRAY_BUFFER and a Float32 copy for
\* attributes, ELEMENT_ARRAY_BUFFER and a Uint16 copy for indices, leaving
\* the same contents and bindings (the same context) behind.
C1_FactoryBuffersAsInline ==
    /\ lastCall.op \in {"CreateAttributeBuffer", "CreateIndexBuffer"} =>
           glB = glA /\ retB = retA
    /\ lastCall.op = "CreateAttributeBuffer" =>
           CreatedAndPopulated(glB, retB, "ARRAY_BUFFER", "Float32Array",
                               Float32Array(lastCall.data))
    /\ lastCall.op = "CreateIndexBuffer" =>
           CreatedAndPopulated(glB, retB, "ELEMENT_ARRAY_BUFFER", "Uint16Array",
                               Uint16Array(lastCall.data))

\* An index buffer of values outside the Uint16 range, created after an
\* attribute buffer.
C1_Witness ==
    /\ calls = 2
    /\ lastCall.op = "CreateIndexBuffer"
    /\ lastCall.data = <<-1, 70000>>
    /\ glB.buffers[retB].data = <<65535, 4464>>
    /\ glB.buffers[1].kind = "Float32Array"
    /\ glB.ARRAY_BUFFER = 1

\* C2: the refactored initShaderProgram answers as the pre-refactor build of
\* a program does for the same compile and link outcomes: whenever linking
\* fails, main's program_data is null.
C2_NullWhenLinkFails ==
    (variant = "textured" /\ pc = "running") =>
        program_data.isNull =
            (LinkedProgramOrNull(
                 NewContext([strict |-> gl.strict, compiles |-> gl.compiles,
                             links |-> gl.links]),
                 "_vertex_shader_source", "_fragment_shader_source").ret = Null)

\* C3: once main has a context and has finished initialising, every render
\* callback issues exactly one scene draw and requests exactly one further
\* frame, so that exactly one callback is pending after it.
C3_OneDrawOneRequest ==
    (pc = "running" /\ frames > 0) =>
        /\ lastFrame.draws = 1
        /\ lastFrame.requested = 1
        /\ pending = 1

\* C4: in the textured cube program, at each drawElements call the position,
\* fill, normal and index buffers of main's BufferedObject hold the cube's
\* vertex positions, texture coordinates, normals and indices; none is a
\* buffer that was created and never populated.
C4_BuffersHoldCube ==
    (variant = "textured" /\ gl.draws > 0) =>
        /\ gl.buffers[buffer_data.position].data = Float32Array(positions)
        /\ gl.buffers[buffer_data.fill].data = Float32Array(texture_coordinates)
        /\ gl.buffers[buffer_data.normal].data = Float32Array(normals)
        /\ gl.buffers[buffer_data.index].data = Uint16Array(indices)
        /\ \A key \in {"position", "fill", "normal", "index"} :
               gl.buffers[buffer_data[key]] # EmptyBuffer

\* One step of the textured cube program, as C5 has it.
C5_Step ==
    variant = "textured" =>
        \* LoadTexture returned, in main: the texture holds the 1x1 pixel
        /\ (pc = "start" /\ pc' = "running") =>
               /\ texture' # Null
               /\ gl'.textures[texture'] =
                      [content |-> "pixels", width |-> 1, height |-> 1,
                       mipmapped |-> FALSE, min_filter |-> "NEAREST_MIPMAP_LINEAR",
                       wrap_s |-> "REPEAT", wrap_t |-> "REPEAT"]
               /\ image' = "loading"
        \* the load event: the image goes into that same texture
        /\ (image = "loading" /\ image' = "loaded") =>
               /\ texture' = texture
               /\ Len(gl'.textures) = Len(gl.textures)
               /\ gl'.textures[texture].content = "image"
        \* the texture keeps its contents between main and the load event
        /\ (pc = "running" /\ image' = image) =>
               gl'.textures[texture].content = gl.textures[texture].content
        \* a draw: main's texture is bound, and its contents are sampled
        /\ gl'.draws > gl.draws =>
               /\ gl'.lastDraw.texture = texture
               /\ gl'.lastDraw.texel = (IF image = "loaded" THEN "image" ELSE "pixels")

\* C5: LoadTexture returns its texture with the 1x1 placeholder pixel
\* uploaded and copies the image into that same texture only at the load
\* event; however the load event interleaves with the frames, each draw
\* binds main's texture and samples defined contents, the placeholder before
\* the load event and the image after it.
C5_TextureDefinedAtEveryDraw == [][C5_Step]_vars

\* Draws before and after the load of an image that is no power of two.
C5_Witness ==
    /\ variant = "textured"
    /\ image = "loaded"
    /\ gl.draws = 3
    /\ gl.lastDraw.texel = "image"
    /\ gl.lastDraw.texture = texture
    /\ gl.textures[texture].width = 3
    /\ gl.textures[texture].height = 2

\* C6: when getContext answers null, main alerts and returns: no call on a
\* context, no shader, program, buffer or texture, no frame requested.
C6_NoContextNoCalls ==
    env.context = "null" =>
        /\ pc = "noctx"
        /\ gl.alerts = 1
        /\ gl.log = <<>>
        /\ gl.shaders = <<>> /\ gl.programs = <<>>
        /\ gl.buffers = <<>> /\ gl.textures = <<>>
        /\ pending = 0
        /\ frames = 0

C6_Witness ==
    /\ env.context = "null"
    /\ variant = "flat"
    /\ pc = "noctx"
    /\ gl.alerts = 1

\* What loading a shader from lastCall's source leaves in the context g.
ShaderLoaded(g, ret) ==
    IF lastCall.data[2] \in g.compiles
    THEN /\ ret = Len(g.shaders)
         /\ g.shaders[ret].compiled
         /\ ~g.shaders[ret].deleted
         /\ g.log[Len(g.log)].op = "getShaderParameter"
    ELSE /\ ret = Null
         /\ g.shaders[Len(g.shaders)].deleted
         /\ g.alerts > 0
         /\ g.log[Len(g.log)] = LogEntry("deleteShader", "", Len(g.shaders), "", <<>>)

\* C7: loadShader and LoadShader delete the shader and return null, after an
\* alert, when its compilation fails; they return the compiled shader, not
\* deleted, when it succeeds. One alert is made per deleted shader.
C7_FailedShaderDeleted ==
    /\ lastCall.op = "LoadShader" => ShaderLoaded(glA, retA) /\ ShaderLoaded(glB, retB)
    /\ glA.alerts = Cardinality({i \in 1..Len(glA.shaders) : glA.shaders[i].deleted})
    /\ glB.alerts = Cardinality({i \in 1..Len(glB.shaders) : glB.shaders[i].deleted})

\* A shader that compiled, then one that did not.
C7_Witness ==
    /\ lastCall.op = "LoadShader"
    /\ lastCall.data[2] = "bad_source"
    /\ retB = Null
    /\ Len(glB.shaders) = 2
    /\ glB.shaders[1].compiled /\ ~glB.shaders[1].deleted
    /\ glB.shaders[2].deleted

\* C8: after every render callback squareRotation = then = the timestamp of
\* the latest frame in seconds, and the rotation has not decreased when the
\* timestamps have not.
C8_RotationIsLatestTime ==
    frames > 0 =>
        /\ squareRotation = then
        /\ then = ToSeconds(lastFrame.now)
        /\ RatLeq(Zero, squareRotation)

\* The buffer was populated through target with the typed copy.
PopulatedThrough(g, buffer, target, kind, copy) ==
    /\ g.buffers[buffer] = [kind |-> kind, data |-> copy, usage |-> "STATIC_DRAW"]
    /\ \E i \in 2..Len(g.log) :
           /\ g.log[i - 1] = LogEntry("bindBuffer", target, buffer, "", <<>>)
           /\ g.log[i] = LogEntry("bufferData", target, buffer, "STATIC_DRAW", copy)

\* The buffer was created by the latest call and never populated.
FreshAndEmpty(g, buffer) ==
    /\ g.buffers[buffer] = EmptyBuffer
    /\ \A i \in 1..Len(g.log) :
           g.log[i].op \in {"bindBuffer", "bufferData"} => g.log[i].obj # buffer

\* C9: BufferObject(object_data) returns a BufferedObject whose position,
\* fill and normal are buffers populated through ARRAY_BUFFER with the
\* arrays present in object_data and whose index is one populated through
\* ELEMENT_ARRAY_BUFFER; the getter of an absent field gives a freshly
\* created empty buffer; the four buffers are non-null and pairwise distinct.
C9_BufferObjectFields ==
    lastCall.op = "BufferObject" =>
        /\ \A key \in {"position", "fill", "normal"} :
               IF Has(lastCall.data, key)
               THEN PopulatedThrough(glB, retB[key], "ARRAY_BUFFER", "Float32Array",
                                     Float32Array(lastCall.data[key]))
               ELSE FreshAndEmpty(glB, retB[key])
        /\ IF Has(lastCall.data, "index")
           THEN PopulatedThrough(glB, retB.index, "ELEMENT_ARRAY_BUFFER", "Uint16Array",
                                 Uint16Array(lastCall.data.index))
           ELSE FreshAndEmpty(glB, retB.index)
        /\ \A key \in ObjectKeys :
               retB[key] \in (lastCall.before + 1)..Len(glB.buffers)
        /\ Cardinality({retB[key] : key \in ObjectKeys}) = 4
        /\ Len(glB.buffers) = lastCall.before + 4

\* An object with a position and an index only, after an earlier call.
C9_Witness ==
    /\ calls = 2
    /\ lastCall.op = "BufferObject"
    /\ DOMAIN lastCall.data = {"position", "index"}
    /\ lastCall.data.index = <<-1, 65537>>
    /\ glB.buffers[retB.index].data = <<65535, 1>>
    /\ glB.buffers[retB.fill] = EmptyBuffer
    /\ lastCall.before > 0

\* The components C10 expects of a vec of size n: the actual arguments, an
\* array among them flattened one level, then the defaults, n in all.
ExpectedVec(actuals, defaults) ==
    Array([i \in 1..Len(defaults) |->
              IF i <= Len(ConcatItems(actuals)) THEN ConcatItems(actuals)[i]
              ELSE defaults[i]])

\* C10: vec2, vec3 and vec4 return an array of exactly 2, 3 or 4 numbers: the
\* components supplied, in order, missing ones filled with 0.0 (1.0 for the
\* fourth of vec4), surplus ones dropped.
C10_VecComponents ==
    /\ vop = "vec2" => vout = ExpectedVec(vargs, <<Number(0), Number(0)>>)
    /\ vop = "vec3" => vout = ExpectedVec(vargs, <<Number(0), Number(0), Number(0)>>)
    /\ vop = "vec4" =>
           vout = ExpectedVec(vargs, <<Number(0), Number(0), Number(0), Number(1)>>)

\* s times the n-by-n identity, flagged as a matrix
ScaledIdentity(n, s) ==
    SetMatrix(Array([i \in 1..n |-> Array([j \in 1..n |-> Number(IF i = j THEN s ELSE 0)])]))

\* The n*n given values, row by row
RowMajor(n, values) ==
    SetMatrix(Array([i \in 1..n |-> Array([j \in 1..n |-> values[(i - 1) * n + j]])]))

\* What C11 expects of a mat of size n called with the given arguments
ExpectedMat(n, actuals, result) ==
    /\ Len(actuals) = 0 => result = ScaledIdentity(n, 1)
    /\ (Len(actuals) = 1 /\ actuals[1].t = "number") =>
           result = ScaledIdentity(n, actuals[1].v)
    /\ Len(ConcatItems(actuals)) = n * n => result = RowMajor(n, ConcatItems(actuals))

\* C11: mat2, mat3 and mat4 return an n-by-n array of numeric rows flagged as
\* a matrix: the identity with no argument, s times the identity with one
\* scalar s, the n*n given values in row-major order otherwise.
C11_MatRows ==
    /\ vop = "mat2" => ExpectedMat(2, vargs, vout)
    /\ vop = "mat3" => ExpectedMat(3, vargs, vout)
    /\ vop = "mat4" => ExpectedMat(4, vargs, vout)

\* ------------------------------------------------------------------------
\* Numbers of the math library. A Number is an integer, a fraction in
\* lowest terms (numerator in v, denominator in items), NaN, or an Infinity
\* of sign v. Arithmetic is exact (no rounding), and the two zeros of IEEE
\* arithmetic are one.
\* ------------------------------------------------------------------------
NaN == Value("NaN", 0, "", <<>>)
Infinity(sign) == Value("Infinity", sign, "", <<>>)
String(text) == Value("string", 0, text, <<>>)

\* throw "text": the value a call ends with when it throws
Thrown(text) == Value("throw", 0, text, <<>>)

FromRat(r) == IF r.den = 1 THEN Number(r.num) ELSE Value("fraction", r.num, "", <<Number(r.den)>>)
AsRat(x) == [num |-> x.v, den |-> IF x.t = "fraction" THEN x.items[1].v ELSE 1]
IsRational(x) == x.t \in {"number", "fraction"}
IsNumber(x) == x.t \in {"number", "fraction", "NaN", "Infinity"}

\* Array.isArray
IsArray(x) == x.t \in {"array", "Vector", "Vector2", "Vector3", "Vector4",
                       "Matrix", "Matrix2", "Matrix3", "Matrix4"}

\* ToNumber: undefined, an arguments object and an array of several elements
\* are NaN, the empty array is 0, an array of one number is that number.
ToNumber(x) ==
    IF IsNumber(x) THEN x
    ELSE IF IsArray(x) /\ x.items = <<>> THEN Number(0)
    ELSE IF IsArray(x) /\ Len(x.items) = 1 /\ IsNumber(x.items[1]) THEN x.items[1]
    ELSE NaN

\* -1, 0 or 1
SignOf(x) == IF x.v > 0 THEN 1 ELSE IF x.v < 0 THEN -1 ELSE 0

RatNeg(a) == [num |-> -a.num, den |-> a.den]
RatDiv(a, b) == IF b.num < 0 THEN Rat(-(a.num * b.den), a.den * (-b.num))
                ELSE Rat(a.num * b.den, a.den * b.num)

NegN(a) ==
    IF a.t = "NaN" THEN NaN
    ELSE IF a.t = "Infinity" THEN Infinity(-a.v)
    ELSE FromRat(RatNeg(AsRat(a)))

AddN(a, b) ==
    IF a.t = "NaN" \/ b.t = "NaN" THEN NaN
    ELSE IF a.t = "Infinity" /\ b.t = "Infinity" THEN (IF a.v = b.v THEN a ELSE NaN)
    ELSE IF a.t = "Infinity" THEN a
    ELSE IF b.t = "Infinity" THEN b
    ELSE FromRat(RatAdd(AsRat(a), AsRat(b)))

MulN(a, b) ==
    IF a.t = "NaN" \/ b.t = "NaN" THEN NaN
    ELSE IF a.t = "Infinity" \/ b.t = "Infinity"
    THEN (IF SignOf(a) * SignOf(b) = 0 THEN NaN ELSE Infinity(SignOf(a) * SignOf(b)))
    ELSE FromRat(RatMul(AsRat(a), AsRat(b)))

DivN(a, b) ==
    IF a.t = "NaN" \/ b.t = "NaN" THEN NaN
    ELSE IF a.t = "Infinity" /\ b.t = "Infinity" THEN NaN
    ELSE IF a.t = "Infinity" THEN Infinity(IF SignOf(b) < 0 THEN -a.v ELSE a.v)
    ELSE IF b.t = "Infinity" THEN Number(0)
    ELSE IF b.v = 0 THEN (IF a.v = 0 THEN NaN ELSE Infinity(SignOf(a)))
    ELSE FromRat(RatDiv(AsRat(a), AsRat(b)))

\* a * b, a + b, a - b, a / b, -a on values that are not strings
JsMul(a, b) == MulN(ToNumber(a), ToNumber(b))
JsAdd(a, b) == AddN(ToNumber(a), ToNumber(b))
JsSub(a, b) == AddN(ToNumber(a), NegN(ToNumber(b)))
JsDiv(a, b) == DivN(ToNumber(a), ToNumber(b))
JsNeg(a) == NegN(ToNumber(a))

\* var sum = 0.0; sum += term, for each term in order
RECURSIVE Sum(_)
Sum(terms) ==
    IF terms = <<>> THEN Number(0)
    ELSE JsAdd(Sum(SubSeq(terms, 1, Len(terms) - 1)), terms[Len(terms)])

\* u.length of an array
LengthOf(u) == Len(u.items)

\* u[i][j]
At2(u, i, j) == At(At(u, i), j)

\* ------------------------------------------------------------------------
\* The generic operations of the math library, called on their own
\* ------------------------------------------------------------------------
\* The product with the second operand read by columns for rows.
mult_matrices_transposed(u, v) ==
    IF LengthOf(u) # LengthOf(v)
    THEN Thrown("mult(): trying to add matrices of different dimensions")
    ELSE SetMatrix(Array(
             [i \in 1..LengthOf(u) |-> Array(
                 [j \in 1..LengthOf(v) |->
                     Sum([k \in 1..LengthOf(u) |->
                             JsMul(At2(u, i - 1, k - 1), At2(v, j - 1, k - 1))])])]))

mult_matrices(u, v) ==
    IF LengthOf(u) # LengthOf(v)
    THEN Thrown("mult(): trying to add matrices of different dimensions")
    ELSE IF \E i \in 0..(LengthOf(u) - 1) : LengthOf(At(u, i)) # LengthOf(At(v, i))
    THEN Thrown("mult(): trying to add matrices of different dimensions")
    ELSE SetMatrix(Array(
             [i \in 1..LengthOf(u) |-> Array(
                 [j \in 1..LengthOf(v) |->
                     Sum([k \in 1..LengthOf(u) |->
                             JsMul(At2(u, i - 1, k - 1), At2(v, k - 1, j - 1))])])]))

mult_matrix_vector(u, v) ==
    Array([i \in 1..LengthOf(v) |->
              Sum([j \in 1..LengthOf(v) |-> JsMul(At2(u, i - 1, j - 1), At(v, j - 1))])])

mult_vectors(u, v) ==
    IF LengthOf(u) # LengthOf(v)
    THEN Thrown("mult(): vectors are not the same dimension")
    ELSE Array([i \in 1..LengthOf(u) |-> JsMul(At(u, i - 1), At(v, i - 1))])

mult(u, v) ==
    IF u.matrix /\ v.matrix THEN mult_matrices(u, v)
    ELSE IF u.matrix /\ LengthOf(u) = LengthOf(v) THEN mult_matrix_vector(u, v)
    ELSE mult_vectors(u, v)

\* Operands: plain vectors, and square arrays of rows flagged as matrices
VectorOf(n, f) == Array([i \in 1..n |-> Number(f[i])])
MatrixOf(n, rows) == SetMatrix(Array([i \in 1..n |-> VectorOf(n, rows[i])]))

Entries == {-1, 0, 2}
Rows2 == [1..2 -> Entries]
Rows3 == {<<1, 0, 2>>, <<0, 1, -1>>, <<0, 0, 1>>, <<2, -1, 0>>}
Rows4 == {<<1, 0, 0, 2>>, <<0, 1, -1, 0>>, <<0, 0, 1, 0>>, <<0, 0, 0, 1>>}

Matrices2 == {MatrixOf(2, rows) : rows \in [1..2 -> Rows2]}
Matrices3 == {MatrixOf(3, rows) : rows \in [1..3 -> Rows3]}
Matrices4 == {MatrixOf(4, rows) : rows \in [1..4 -> Rows4]}
Vectors2 == {VectorOf(2, f) : f \in Rows2}
Vectors3 == {VectorOf(3, f) : f \in Rows3}

\* The operands of mult: few matrices of each size, and the vectors
MultMatrices ==
    {MatrixOf(2, rows) : rows \in [1..2 -> {<<-1, 2>>, <<2, 0>>, <<0, 1>>}]}
    \cup {MatrixOf(3, rows) : rows \in [1..3 -> {<<1, 0, 2>>, <<2, -1, 0>>}]}
MultOperands == MultMatrices \cup Vectors2 \cup Vectors3

MultInputs == {<<u, v>> : u \in MultOperands, v \in MultOperands}

CallMult ==
    /\ vop = "none"
    /\ vargs \in MultInputs
    /\ VecCalled("mult", mult(vargs[1], vargs[2]))

\* Determinants
det2(m) == JsSub(JsMul(At2(m, 0, 0), At2(m, 1, 1)), JsMul(At2(m, 0, 1), At2(m, 1, 0)))

Product3(a, b, c) == JsMul(JsMul(a, b), c)

det3(m) ==
    JsSub(JsSub(JsSub(JsAdd(JsAdd(
        Product3(At2(m, 0, 0), At2(m, 1, 1), At2(m, 2, 2)),
        Product3(At2(m, 0, 1), At2(m, 1, 2), At2(m, 2, 0))),
        Product3(At2(m, 0, 2), At2(m, 2, 1), At2(m, 1, 0))),
        Product3(At2(m, 2, 0), At2(m, 1, 1), At2(m, 0, 2))),
        Product3(At2(m, 1, 0), At2(m, 0, 1), At2(m, 2, 2))),
        Product3(At2(m, 0, 0), At2(m, 1, 2), At2(m, 2, 1)))

\* var m0 = [ vec3(m[1][a], m[1][b], m[1][c]), vec3(m[2][a], ...), vec3(m[3][a], ...) ]
det4_minor(m, a, b, c) ==
    Array([i \in 1..3 |-> vec3(Arguments(<<At2(m, i, a), At2(m, i, b), At2(m, i, c)>>))])

det4(m) ==
    JsSub(JsAdd(JsSub(
        JsMul(At2(m, 0, 0), det3(det4_minor(m, 1, 2, 3))),
        JsMul(At2(m, 0, 1), det3(det4_minor(m, 0, 2, 3)))),
        JsMul(At2(m, 0, 2), det3(det4_minor(m, 0, 1, 3)))),
        JsMul(At2(m, 0, 3), det3(det4_minor(m, 0, 1, 2))))

det(m) ==
    IF LengthOf(m) = 2 THEN det2(m)
    ELSE IF LengthOf(m) = 3 THEN det3(m)
    ELSE IF LengthOf(m) = 4 THEN det4(m)
    ELSE undefined

SquareInputs == {<<m>> : m \in Matrices2 \cup Matrices3 \cup Matrices4}

CallDet ==
    /\ vop = "none"
    /\ vargs \in SquareInputs
    /\ VecCalled("det", det(vargs[1]))

\* Inverses
\* a[i][j] = E(i, j) for every i, j below n, on the rows a already has
Assigned(a, n, E(_, _)) ==
    [a EXCEPT !.items = [i \in 1..n |->
        [a.items[i] EXCEPT !.items =
            [j \in 1..(IF Len(a.items[i].items) < n THEN n ELSE Len(a.items[i].items)) |->
                IF j <= n THEN E(i - 1, j - 1) ELSE a.items[i].items[j]]]]]

inverse2(m) ==
    SetMatrix(Assigned(mat2(Arguments(<<>>)), 2, LAMBDA i, j :
        IF i = j THEN JsDiv(At2(m, 1 - i, 1 - j), det2(m))
        ELSE JsDiv(JsNeg(At2(m, i, j)), det2(m))))

\* The index k of the rows (columns) that remain without row (column) d
Remaining(k, d) == IF k < d THEN k ELSE k + 1

\* var a01 = [ vec2(m[1][0], m[1][2]), vec2(m[2][0], m[2][2]) ]: m without
\* row r and column c, its rows made by vec2
inverse3_minor(m, r, c) ==
    Array([i \in 1..2 |->
        vec2(Arguments([j \in 1..2 |-> At2(m, Remaining(i - 1, r), Remaining(j - 1, c))]))])

inverse3(m) ==
    Assigned(mat3(Arguments(<<>>)), 3, LAMBDA i, j :
        IF (i + j) % 2 = 0 THEN JsDiv(det2(inverse3_minor(m, j, i)), det3(m))
        ELSE JsDiv(JsNeg(det2(inverse3_minor(m, j, i))), det3(m)))

inverse4_minor(m, r, c) ==
    Array([i \in 1..3 |->
        vec3(Arguments([j \in 1..3 |-> At2(m, Remaining(i - 1, r), Remaining(j - 1, c))]))])

inverse4(m) ==
    Assigned(mat4(Arguments(<<>>)), 4, LAMBDA i, j :
        IF (i + j) % 2 = 0 THEN JsDiv(det3(inverse4_minor(m, j, i)), det4(m))
        ELSE JsDiv(JsNeg(det3(inverse4_minor(m, j, i))), det4(m)))

inverse(m) ==
    IF LengthOf(m) = 2 THEN inverse2(m)
    ELSE IF LengthOf(m) = 3 THEN inverse3(m)
    ELSE IF LengthOf(m) = 4 THEN inverse4(m)
    ELSE undefined

CallInverse ==
    /\ vop = "none"
    /\ vargs \in SquareInputs
    /\ VecCalled("inverse", inverse(vargs[1]))

\* Vector functions
dot(u, v) ==
    IF LengthOf(u) # LengthOf(v) THEN Thrown("dot(): vectors are not the same dimension")
    ELSE Sum([i \in 1..LengthOf(u) |-> JsMul(At(u, i - 1), At(v, i - 1))])

\* The root of a perfect square; the operands of the model have no other norm.
Root(n) == CHOOSE r \in 0..n : r * r = n

\* Math.sqrt
Sqrt(x) ==
    IF x.t = "NaN" THEN NaN
    ELSE IF x.t = "Infinity" THEN (IF x.v > 0 THEN x ELSE NaN)
    ELSE IF x.v < 0 THEN NaN
    ELSE FromRat([num |-> Root(AsRat(x).num), den |-> Root(AsRat(x).den)])

length(u) == Sqrt(dot(u, u))

\* isFinite
isFinite(x) == IsRational(ToNumber(x))

\* "" + x for numbers and arrays of them (a fraction is written num/den, not
\* as its decimal expansion)
RECURSIVE JsString(_)
JsString(x) ==
    IF x.t = "number" THEN ToString(x.v)
    ELSE IF x.t = "fraction" THEN ToString(x.v) \o "/" \o ToString(x.items[1].v)
    ELSE IF x.t = "NaN" THEN "NaN"
    ELSE IF x.t = "Infinity" THEN (IF x.v > 0 THEN "Infinity" ELSE "-Infinity")
    ELSE IF x.t = "string" THEN x.s
    ELSE IF x.t = "undefined" THEN ""
    ELSE IF x.items = <<>> THEN ""
    ELSE IF Len(x.items) = 1 THEN JsString(x.items[1])
    ELSE JsString(Array(SubSeq(x.items, 1, Len(x.items) - 1)))
             \o "," \o JsString(x.items[Len(x.items)])

true == Value("boolean", 1, "", <<>>)

\* for ( var i = 0; i < u.length; ++i ) u[i] /= len;
normalize_scaled(u, len) ==
    [u EXCEPT !.items = [i \in 1..LengthOf(u) |-> JsDiv(u.items[i], len)]]

\* u.pop() as a statement, and the value it returns
Popped(u) == [u EXCEPT !.items = SubSeq(u.items, 1, Len(u.items) - 1)]
PoppedValue(u) == IF u.items = <<>> THEN undefined ELSE u.items[Len(u.items)]

\* u.push(x)
Pushed(u, x) == [u EXCEPT !.items = Append(u.items, x)]

normalize_checked(u) ==
    IF ~isFinite(length(u))
    THEN Thrown("normalize: vector " \o JsString(u) \o " has zero length")
    ELSE normalize_scaled(u, length(u))

normalize(u, excludeLastComponent) ==
    IF excludeLastComponent = true
    THEN (IF normalize_checked(Popped(u)).t = "throw" THEN normalize_checked(Popped(u))
          ELSE Pushed(normalize_checked(Popped(u)), PoppedValue(u)))
    ELSE normalize_checked(u)

\* Vectors whose norm is a whole number, zero vectors, and a vector that is
\* not of numbers
NormVectors ==
    {Array([i \in 1..Len(f) |-> Number(f[i])]) : f \in
        {<<0, 0>>, <<0, 0, 0>>, <<0, 0, 0, 0>>, <<3, 4>>, <<-1, 0>>, <<0, 2>>,
         <<2, -1, 2>>, <<0, 0, -1>>, <<2, 0, 0>>, <<4, 0, -3>>,
         <<1, 1, 1, 1>>, <<0, 0, 0, 2>>, <<2, -1, 2, 0>>}}
    \cup {Array(<<NaN, Number(1)>>), Array(<<Number(1), undefined, Number(0)>>)}

NormalizeInputs ==
    {<<u>> : u \in NormVectors} \cup {<<Pushed(u, Number(5)), true>> : u \in NormVectors}

CallNormalize ==
    /\ vop = "none"
    /\ vargs \in NormalizeInputs
    /\ VecCalled("normalize", normalize(vargs[1], At(Array(vargs), 1)))

\* a !== b: NaN differs from everything, primitive values are compared by
\* value, and two objects are the same only when they are one object (the
\* operands of the model never share an object).
StrictNotEqual(a, b) ==
    IF a.t = "NaN" \/ b.t = "NaN" THEN TRUE
    ELSE IF a.t \in {"number", "fraction", "Infinity", "string", "undefined", "boolean"}
    THEN a # b
    ELSE TRUE

equal(u, v) ==
    IF LengthOf(u) # LengthOf(v) THEN FALSE
    ELSE IF u.matrix /\ v.matrix
    THEN \A i \in 0..(LengthOf(u) - 1) :
             /\ LengthOf(At(u, i)) = LengthOf(At(v, i))
             /\ \A j \in 0..(LengthOf(At(u, i)) - 1) : ~StrictNotEqual(At2(u, i, j), At2(v, i, j))
    ELSE IF u.matrix # v.matrix THEN FALSE
    ELSE \A i \in 0..(LengthOf(u) - 1) : ~StrictNotEqual(At(u, i), At(v, i))

subtract(u, v) ==
    IF u.matrix /\ v.matrix
    THEN (IF LengthOf(u) # LengthOf(v)
          THEN Thrown("subtract(): trying to subtract matrices of different dimensions")
          ELSE IF \E i \in 0..(LengthOf(u) - 1) : LengthOf(At(u, i)) # LengthOf(At(v, i))
          THEN Thrown("subtract(): trying to subtact matrices of different dimensions")
          ELSE SetMatrix(Array([i \in 1..LengthOf(u) |->
                   Array([j \in 1..LengthOf(At(u, i - 1)) |->
                       JsSub(At2(u, i - 1, j - 1), At2(v, i - 1, j - 1))])])))
    ELSE IF u.matrix # v.matrix
    THEN Thrown("subtact(): trying to subtact  matrix and non-matrix variables")
    ELSE IF LengthOf(u) # LengthOf(v)
    THEN Thrown("subtract(): vectors are not the same length")
    ELSE Array([i \in 1..LengthOf(u) |-> JsSub(At(u, i - 1), At(v, i - 1))])

negate(u) == Array([i \in 1..LengthOf(u) |-> JsNeg(At(u, i - 1))])

cross(u, v) ==
    IF ~IsArray(u) \/ LengthOf(u) < 3
    THEN Thrown("cross(): first argument is not a vector of at least 3")
    ELSE IF ~IsArray(v) \/ LengthOf(v) < 3
    THEN Thrown("cross(): second argument is not a vector of at least 3")
    ELSE Array(<< JsSub(JsMul(At(u, 1), At(v, 2)), JsMul(At(u, 2), At(v, 1))),
                  JsSub(JsMul(At(u, 2), At(v, 0)), JsMul(At(u, 0), At(v, 2))),
                  JsSub(JsMul(At(u, 0), At(v, 1)), JsMul(At(u, 1), At(v, 0))) >>)

\* A call whose argument is the outcome of a throwing call does not happen.
Try(value, Rest(_)) == IF value.t = "throw" THEN value ELSE Rest(value)

\* vec4( n, -dot(n, eye) )
lookAt_row(n, eye) == vec4(Arguments(<<n, JsNeg(dot(n, eye))>>))

lookAt_result(eye, at, up) ==
    Try(subtract(at, eye), LAMBDA difference :
    Try(normalize(difference, undefined), LAMBDA v :
    Try(cross(v, up), LAMBDA product :
    Try(normalize(product, undefined), LAMBDA n :
    Try(cross(n, v), LAMBDA second :
    Try(normalize(second, undefined), LAMBDA u :
        mat4(Arguments(<< lookAt_row(n, eye), lookAt_row(u, eye),
                          lookAt_row(negate(v), eye), vec4(Arguments(<<>>)) >>))))))))

lookAt(eye, at, up) ==
    IF ~IsArray(eye) \/ LengthOf(eye) # 3
    THEN Thrown("lookAt(): first parameter [eye] must be an a vec3")
    ELSE IF ~IsArray(at) \/ LengthOf(at) # 3
    THEN Thrown("lookAt(): first parameter [at] must be an a vec3")
    ELSE IF ~IsArray(up) \/ LengthOf(up) # 3
    THEN Thrown("lookAt(): first parameter [up] must be an a vec3")
    ELSE IF equal(eye, at) THEN mat4(Arguments(<<>>))
    ELSE lookAt_result(eye, at, up)

\* a == b on numbers
LooseEqual(a, b) == ~StrictNotEqual(ToNumber(a), ToNumber(b))

\* result[i][j] = x
AssignedAt(a, i, j, x) ==
    [a EXCEPT !.items[i + 1].items =
        [k \in 1..(IF Len(@) < j + 1 THEN j + 1 ELSE Len(@)) |->
            IF k = j + 1 THEN x ELSE IF k <= Len(@) THEN @[k] ELSE undefined]]

ortho(left, right, bottom, top, near, far) ==
    IF LooseEqual(left, right) THEN Thrown("ortho(): left and right are equal")
    ELSE IF LooseEqual(bottom, top) THEN Thrown("ortho(): bottom and top are equal")
    ELSE IF LooseEqual(near, far) THEN Thrown("ortho(): near and far are equal")
    ELSE AssignedAt(AssignedAt(AssignedAt(AssignedAt(AssignedAt(AssignedAt(
             mat4(Arguments(<<>>)),
             0, 0, JsDiv(Number(2), JsSub(right, left))),
             1, 1, JsDiv(Number(2), JsSub(top, bottom))),
             2, 2, JsDiv(Number(-2), JsSub(far, near))),
             0, 3, JsDiv(JsNeg(JsAdd(left, right)), JsSub(right, left))),
             1, 3, JsDiv(JsNeg(JsAdd(top, bottom)), JsSub(top, bottom))),
             2, 3, JsDiv(JsNeg(JsAdd(near, far)), JsSub(far, near)))

\* Points of one line, directions along the axes, a point off the line seen
\* from the origin, and values that are no array of three
Point(x, y, z) == Array(<<Number(x), Number(y), Number(z)>>)
LinePoints == {Point(0, 0, 0), Point(0, 0, 2), Point(0, 0, -1)}
Directions == {Point(0, 1, 0), Point(1, 0, 0), Point(0, 0, 1)}
NoPoints == {Number(1), Array(<<Number(0), Number(1)>>), Array(<<Number(0), Number(0), Number(1), Number(1)>>)}

LookAtInputs ==
    {<<eye, at, up>> : eye \in LinePoints, at \in LinePoints, up \in Directions}
    \cup {<<Point(0, 0, 0), Point(0, 4, 3), Point(0, 1, 0)>>}
    \cup {<<eye, at, up>> : eye \in NoPoints \cup {Point(0, 0, 2)},
                            at \in NoPoints \cup {Point(0, 0, 2)},
                            up \in NoPoints \cup {Point(0, 1, 0)}}

OrthoInputs == [1..6 -> {Number(-1), Number(1), Number(3)}]

CallLookAt ==
    /\ vop = "none"
    /\ vargs \in LookAtInputs
    /\ VecCalled("lookAt", lookAt(vargs[1], vargs[2], vargs[3]))

CallOrtho ==
    /\ vop = "none"
    /\ vargs \in OrthoInputs
    /\ VecCalled("ortho", ortho(vargs[1], vargs[2], vargs[3], vargs[4], vargs[5], vargs[6]))

\* transpose with the rows left as they are
transpose_unchanged(m) ==
    IF ~m.matrix THEN String("transpose(): trying to transpose a non-matrix")
    ELSE SetMatrix(Array(m.items))

\* m[j] of a row longer than m is undefined, and m[j][i] a TypeError
transpose(m) ==
    IF ~m.matrix THEN String("transpose(): trying to transpose a non-matrix")
    ELSE IF \E i \in 0..(LengthOf(m) - 1) : LengthOf(At(m, i)) > LengthOf(m)
    THEN Thrown("TypeError")
    ELSE SetMatrix(Array([i \in 1..LengthOf(m) |->
             Array([j \in 1..LengthOf(At(m, i - 1)) |-> At2(m, j - 1, i - 1)])]))

\* floats[idx] = x: the number nearest to x that a Float32Array holds
StoreFloat32(x) ==
    IF ToNumber(x).t = "number" THEN Number(ToFloat32(ToNumber(x).v)) ELSE ToNumber(x)

\* the scalars v[i][j], in the order of the two loops
RECURSIVE flatten_elements(_)
flatten_elements(rows) ==
    IF rows = <<>> THEN <<>>
    ELSE (IF IsArray(Head(rows)) THEN Head(rows).items ELSE <<>>) \o flatten_elements(Tail(rows))

\* var n = v.length; if ( Array.isArray(v[0]) ) n *= v[0].length;
flatten_size(v) ==
    IF IsArray(At(v, 0)) THEN LengthOf(v) * LengthOf(At(v, 0)) ELSE LengthOf(v)

\* new Float32Array(n) holds n zeros; a write beyond n is dropped
flatten_floats(v) ==
    With(IF IsArray(At(v, 0)) THEN flatten_elements(v.items) ELSE v.items, LAMBDA elements :
    Value("Float32Array", 0, "",
          [k \in 1..flatten_size(v) |->
              IF k <= Len(elements) THEN StoreFloat32(elements[k]) ELSE Number(0)]))

flatten(v) ==
    IF v.matrix THEN Try(transpose(v), LAMBDA transposed : flatten_floats(transposed))
    ELSE flatten_floats(v)

\* Arrays of vectors that are not flagged: of one length, of several, none
ArraysOfVectors ==
    {Array(<<u, v>>) : u \in Vectors2 \cup Vectors3, v \in Vectors2 \cup Vectors3}
    \cup {Array(<<u, v, w>>) : u \in Vectors2, v \in Vectors2, w \in Vectors2}
    \cup {Array(<<>>)}

\* A flagged array of two rows of three
Wide == SetMatrix(Array(<<Point(1, 2, 3), Point(4, 5, 6)>>))

FlattenInputs ==
    SquareInputs \cup {<<v>> : v \in Vectors2 \cup Vectors3 \cup ArraysOfVectors \cup {Wide}}

TransposeInputs == SquareInputs \cup {<<v>> : v \in Vectors3 \cup {Wide}}

CallTranspose ==
    /\ vop = "none"
    /\ vargs \in TransposeInputs
    /\ VecCalled("transpose", transpose(vargs[1]))

CallFlatten ==
    /\ vop = "none"
    /\ vargs \in FlattenInputs
    /\ VecCalled("flatten", flatten(vargs[1]))

\* ------------------------------------------------------------------------
\* The classes Vector, Vector2, Vector3, Vector4 (arrays of their class)
\* ------------------------------------------------------------------------
false == Value("boolean", 0, "", <<>>)
Bool(b) == IF b THEN true ELSE false

\* A class (constructor function) by its name, and its superclass
Class(name) == Value("class", 0, name, <<>>)

Extends(name) ==
    IF name \in {"Vector2", "Vector3", "Vector4"} THEN "Vector"
    ELSE IF name \in {"Matrix2", "Matrix3", "Matrix4"} THEN "Matrix"
    ELSE IF name \in {"Vector", "Matrix"} THEN "Array"
    ELSE "Object"

\* The name of the class of an object
ClassOf(value) == IF value.t \in {"array", "Float32Array"} THEN "Array" ELSE value.t

\* value instanceof target: a TypeError unless target is callable
InstanceOf(value, target) ==
    IF target.t # "class"
    THEN Thrown("TypeError: Right-hand side of 'instanceof' is not callable")
    ELSE IF ~IsArray(value) THEN false
    ELSE Bool(target.s \in {ClassOf(value), Extends(ClassOf(value)),
                            Extends(Extends(ClassOf(value))), "Object"})

\* A parameter with a default value
Default(args, i, value) == IF At(Array(args), i) = undefined THEN value ELSE At(Array(args), i)

\* new Vector2(...args), new Vector3(...args), new Vector4(...args)
Vector2(args) ==
    Value("Vector2", 0, "", << Default(args, 0, Number(0)), Default(args, 1, Number(0)) >>)

Vector3(args) ==
    Value("Vector3", 0, "", << Default(args, 0, Number(0)), Default(args, 1, Number(0)),
                               Default(args, 2, Number(0)) >>)

Vector4(args) ==
    Value("Vector4", 0, "", << Default(args, 0, Number(0)), Default(args, 1, Number(0)),
                               Default(args, 2, Number(0)), Default(args, 3, Number(1)) >>)

\* compare_vector.every((compare_value, value_index) => compare_value === this[value_index])
Vector_every_equal(this, compare_vector) ==
    \A i \in 0..(LengthOf(compare_vector) - 1) : ~StrictNotEqual(At(compare_vector, i), At(this, i))

Vector_isEqualTo(this, compare_vector) ==
    Try(InstanceOf(compare_vector, this), LAMBDA is_instance :
        IF is_instance = false THEN false
        ELSE IF LengthOf(compare_vector) # LengthOf(this) THEN false
        ELSE Bool(Vector_every_equal(this, compare_vector)))

\* Vectors of the three classes
Bits == {Number(0), Number(1)}
ClassVectors ==
    {Vector2(<<x, y>>) : x \in Bits, y \in Bits}
    \cup {Vector3(<<x, y, Number(2)>>) : x \in Bits, y \in Bits}
    \cup {Vector4(<<x, Number(0), Number(-1), y>>) : x \in Bits, y \in Bits}

IsEqualToInputs == {<<u, v>> : u \in ClassVectors, v \in ClassVectors}

CallIsEqualTo ==
    /\ vop = "none"
    /\ vargs \in IsEqualToInputs
    /\ VecCalled("isEqualTo", Vector_isEqualTo(vargs[1], vargs[2]))

\* ------------------------------------------------------------------------
\* The classes Matrix, Matrix2, Matrix3, Matrix4
\* ------------------------------------------------------------------------
\* new Number(v): an object, where Number(v) is the primitive value
NumberObject(v) == Value("Number", v, "", <<>>)

\* super(...args) of a class that extends Array: one number is the length of
\* an array of holes, anything else is the elements
ArrayConstruct(class, args) ==
    IF Len(args) = 1 /\ args[1].t = "number"
    THEN (IF args[1].v < 0 THEN Thrown("RangeError: Invalid array length")
          ELSE Value(class, 0, "", [i \in 1..args[1].v |-> undefined]))
    ELSE IF Len(args) = 1 /\ IsNumber(args[1]) THEN Thrown("RangeError: Invalid array length")
    ELSE Value(class, 0, "", args)

\* new Vector2(...row), new Vector3(...row), new Vector4(...row): spreading
\* undefined is a TypeError
NewVector(n, row) ==
    IF ~IsArray(row) THEN Thrown("TypeError: undefined is not iterable")
    ELSE IF n = 2 THEN Vector2(row.items)
    ELSE IF n = 3 THEN Vector3(row.items)
    ELSE Vector4(row.items)

VectorClass(n) == IF n = 2 THEN "Vector2" ELSE IF n = 3 THEN "Vector3" ELSE "Vector4"

\* The first of the values that is a throw, or the array of the values
AllOrThrown(values) ==
    IF \E i \in 1..Len(values) : values[i].t = "throw"
    THEN values[CHOOSE i \in 1..Len(values) :
                    values[i].t = "throw" /\ \A k \in 1..(i - 1) : values[k].t # "throw"]
    ELSE Array(values)

\* vector_collection.unshift(new VectorN(...vector.pop())), n times: the
\* pops run from the last element; the rows end in the order of vector
Matrix_popped_rows(n, vector) ==
    With([k \in 1..n |-> NewVector(n, At(Array(<<undefined>> \o vector.items),
                                         IF LengthOf(vector) - k + 1 < 0 THEN 0
                                         ELSE LengthOf(vector) - k + 1))],
         LAMBDA pops :
             IF \E k \in 1..n : pops[k].t = "throw" THEN AllOrThrown(pops)
             ELSE Array([i \in 1..n |-> pops[n - i + 1]]))

\* vector_collection.push(new VectorN(...vector.splice(0, n))), n times
Matrix_spliced_rows(n, vector) ==
    Array([i \in 1..n |-> NewVector(n, Array(SubSeq(vector.items,
              (IF (i - 1) * n < Len(vector.items) THEN (i - 1) * n ELSE Len(vector.items)) + 1,
              IF i * n < Len(vector.items) THEN i * n ELSE Len(vector.items))))])

\* new VectorN(vector, 0.0), new VectorN(0.0, vector), ...
Matrix_scalar_rows(n, vector) ==
    Array([i \in 1..n |-> NewVector(n, Array([j \in 1..n |-> IF i = j THEN vector ELSE Number(0)]))])

\* vector_collection of the constructors of Matrix2, Matrix3 and Matrix4
vector_collection(n, vector) ==
    IF InstanceOf(vector, Class("Array")) = true
    THEN (IF \A i \in 1..LengthOf(vector) : InstanceOf(vector.items[i], Class("Array")) = true
          THEN (IF \A i \in 1..LengthOf(vector) :
                       \/ InstanceOf(vector.items[i], Class(VectorClass(n))) = true
                       \/ LengthOf(vector.items[i]) = n
                THEN Matrix_popped_rows(n, vector)
                ELSE Thrown("Matrix" \o ToString(n) \o " can only be instantiated by: Vector | Vector"
                            \o ToString(n) \o "[] | Number | Number[] | Number[][]"))
          ELSE IF \A i \in 1..LengthOf(vector) : vector.items[i].t \in {"Number", "String"}
          THEN Matrix_spliced_rows(n, vector)
          ELSE Thrown("Irregualer instantiation arguments found."))
    ELSE Matrix_scalar_rows(n, vector)

\* new Matrix(...vectors)
Matrix(vectors) == ArrayConstruct("Matrix", vectors)

\* new Matrix2(...args): super(...vector_collection)
Matrix2(args) ==
    Try(vector_collection(2, Default(args, 0, Number(1))), LAMBDA collection :
        ArrayConstruct("Matrix2", collection.items))

\* new Matrix3(...args) and new Matrix4(...args): super(vector_collection)
Matrix3(args) ==
    Try(vector_collection(3, Default(args, 0, Number(1))), LAMBDA collection :
        ArrayConstruct("Matrix3", <<collection>>))

Matrix4(args) ==
    Try(vector_collection(4, Default(args, 0, Number(1))), LAMBDA collection :
        ArrayConstruct("Matrix4", <<collection>>))

\* The arguments of the constructors: none, a number, rows, a flat array
PlainRows(n) ==
    {Array([i \in 1..n |-> Array([j \in 1..n |-> Number(f[((i + j) % 2) + 1])])]) :
         f \in [1..2 -> {-1, 0, 2}]}
VectorRows(n) ==
    {Array([i \in 1..n |-> NewVector(n, Array([j \in 1..n |-> Number(IF j = i THEN a ELSE 3)]))]) :
         a \in {0, 1}}
FlatNumbers(n) ==
    {Array([k \in 1..(n * n) |-> Number(IF k % 3 = 0 THEN a ELSE k)]) : a \in {0, -2}}
FlatObjects(n) ==
    {Array([k \in 1..(n * n) |-> NumberObject(k + a)]) : a \in {0, 1}}

MatrixArguments ==
    {<<>>} \cup {<<Number(x)>> : x \in {-1, 0, 2}}
    \cup {<<rows>> : rows \in UNION {PlainRows(n) \cup VectorRows(n) \cup FlatNumbers(n)
                                      \cup FlatObjects(n) : n \in 2..4}}
    \cup {<<Array(<<Number(1), Array(<<Number(2), Number(3)>>)>>)>>,
          <<Array(<<Array(<<Number(2), Number(3)>>)>>)>>}

CallMatrix2 ==
    /\ vop = "none"
    /\ vargs \in MatrixArguments
    /\ VecCalled("Matrix2", Matrix2(vargs))

CallMatrix3 ==
    /\ vop = "none"
    /\ vargs \in MatrixArguments
    /\ VecCalled("Matrix3", Matrix3(vargs))

CallMatrix4 ==
    /\ vop = "none"
    /\ vargs \in MatrixArguments
    /\ VecCalled("Matrix4", Matrix4(vargs))

\* ------------------------------------------------------------------------
\* Vector.times and Matrix.times
\* ------------------------------------------------------------------------
null == Value("null", 0, "", <<>>)

\* JSON.parse(JSON.stringify(value)): plain arrays of plain arrays and
\* numbers; what is not a finite number becomes null
RECURSIVE JsonCopy(_)
JsonCopy(value) ==
    IF IsArray(value) THEN Array([i \in 1..LengthOf(value) |-> JsonCopy(value.items[i])])
    ELSE IF IsRational(value) THEN value
    ELSE IF value.t = "Number" THEN Number(value.v)
    ELSE null

\* Reflect.construct(multiplication_matrix[0].constructor, []), for a first
\* row that is an array of some class
Construct(row) ==
    IF row.t = "Vector2" THEN Vector2(<<>>)
    ELSE IF row.t = "Vector3" THEN Vector3(<<>>)
    ELSE IF row.t = "Vector4" THEN Vector4(<<>>)
    ELSE IF IsArray(row) THEN ArrayConstruct(ClassOf(row), <<>>)
    ELSE Thrown("TypeError")

\* product_vector[column_index] += row_vector[vector_index] * column_vector[column_index],
\* for every row column_vector of the matrix in turn, starting from start
RECURSIVE times_column(_, _, _, _)
times_column(start, row_vector, rows, column_index) ==
    IF rows = <<>> THEN start
    ELSE JsAdd(times_column(start, row_vector, SubSeq(rows, 1, Len(rows) - 1), column_index),
               JsMul(At(row_vector, Len(rows) - 1), At(rows[Len(rows)], column_index)))

times_product(row_vector, multiplication_matrix) ==
    Try(Construct(At(multiplication_matrix, 0)), LAMBDA product_vector :
        [product_vector EXCEPT !.items =
            [c \in 1..(IF LengthOf(product_vector) < LengthOf(At(multiplication_matrix, 0))
                       THEN LengthOf(At(multiplication_matrix, 0))
                       ELSE LengthOf(product_vector)) |->
                IF c <= LengthOf(At(multiplication_matrix, 0))
                THEN times_column(At(product_vector, c - 1), row_vector,
                                  multiplication_matrix.items, c - 1)
                ELSE At(product_vector, c - 1)]])

Vector_times(this, multiplication_matrix) ==
    IF LengthOf(this) # LengthOf(multiplication_matrix)
    THEN Thrown("Vector multiplication argument value miss-match. Argument row count("
                \o ToString(LengthOf(multiplication_matrix))
                \o ")\n             must match this Vector column count("
                \o ToString(LengthOf(this)) \o ").")
    ELSE times_product(this, multiplication_matrix)

\* Reflect.construct(this.constructor, [JSON.parse(JSON.stringify(this))])
Matrix_copy(this) ==
    IF this.t = "Matrix2" THEN Matrix2(<<JsonCopy(this)>>)
    ELSE IF this.t = "Matrix3" THEN Matrix3(<<JsonCopy(this)>>)
    ELSE IF this.t = "Matrix4" THEN Matrix4(<<JsonCopy(this)>>)
    ELSE Matrix(<<JsonCopy(this)>>)

\* array.map(callback) on an array of a class: an array of that class with
\* the values of the callback, or the first throw of the callback
Matrix_map(array, Callback(_)) ==
    Try(AllOrThrown([i \in 1..LengthOf(array) |-> Callback(array.items[i])]), LAMBDA values :
        [array EXCEPT !.items = values.items])

Matrix_times(this, multiplication_matrix) ==
    IF LengthOf(At(this, 0)) # LengthOf(multiplication_matrix)
    THEN Thrown("Matrix multiplication argument value miss-match. Argument row count("
                \o ToString(LengthOf(multiplication_matrix))
                \o ")\n             must match this matrix column count("
                \o ToString(LengthOf(At(this, 0))) \o ").")
    ELSE Try(Matrix_copy(this), LAMBDA copy :
             Matrix_map(copy, LAMBDA row_vector : times_product(row_vector, multiplication_matrix)))

\* Matrices of the classes Matrix2, Matrix3 and Matrix4 as their constructors
\* make them, and matrices of the class Matrix given their rows
UnitRow(n, i, s) == NewVector(n, Array([j \in 1..n |-> Number(IF i = j THEN s ELSE 0)]))

TimesMatrices ==
    {Matrix2(<<rows>>) : rows \in PlainRows(2)}
    \cup {Matrix2(<<>>), Matrix3(<<>>), Matrix4(<<>>)}
    \cup {Matrix3(<<rows>>) : rows \in VectorRows(3)}
    \cup {Matrix4(<<rows>>) : rows \in VectorRows(4)}
    \cup {Matrix([i \in 1..n |-> UnitRow(n, i, s)]) : n \in 2..4, s \in {1, 2}}
    \cup {Matrix(<<Vector3(<<Number(1), Number(2)>>), Vector3(<<Number(0), Number(-1), Number(1)>>)>>)}

VectorTimesInputs == {<<v, m>> : v \in ClassVectors, m \in TimesMatrices}
MatrixTimesInputs == {<<a, b>> : a \in TimesMatrices, b \in TimesMatrices}

CallVectorTimes ==
    /\ vop = "none"
    /\ vargs \in VectorTimesInputs
    /\ VecCalled("Vector.times", Vector_times(vargs[1], vargs[2]))

CallMatrixTimes ==
    /\ vop = "none"
    /\ vargs \in MatrixTimesInputs
    /\ VecCalled("Matrix.times", Matrix_times(vargs[1], vargs[2]))

\* ------------------------------------------------------------------------
\* APP.Player: load, play, stop, the document listeners and animate
\* ------------------------------------------------------------------------
DocumentTypes == {"keydown", "keyup", "mousedown", "mouseup", "mousemove",
                  "touchstart", "touchend", "touchmove"}
EventTypes == {"init", "start", "stop", "update"} \cup DocumentTypes

\* A script gives a function to some event types; what matters of the
\* function is whether it returns or what it throws.
ThrownBy(behaviour) ==
    IF behaviour = "throws Error" THEN "Error"
    ELSE IF behaviour = "throws text" THEN "text"
    ELSE IF behaviour = "throws null" THEN "null"
    ELSE "none"

ScriptPool ==
    { [type \in {"update", "keydown", "start", "stop"} |-> "returns"],
      [type \in {"update"} |-> "throws Error"],
      [type \in {"update", "init"} |-> "throws null"],
      [type \in {"stop"} |-> "throws Error"],
      [type \in {"start", "touchmove"} |-> "throws text"],
      [type \in DocumentTypes |-> "returns"] }

ScriptLists == UNION {[1..n -> ScriptPool] : n \in 0..MaxScripts}

\* events[ name ].push( functions[ name ].bind( object ) ), script by script
RECURSIVE Handlers(_, _)
Handlers(scripts, name) ==
    IF scripts = <<>> THEN <<>>
    ELSE Handlers(SubSeq(scripts, 1, Len(scripts) - 1), name)
         \o (IF name \in DOMAIN scripts[Len(scripts)]
             THEN <<scripts[Len(scripts)][name]>> ELSE <<>>)

\* dispatch( array, event ): the handlers run in order until one throws.
\* events is {} before load, and array.length of undefined a TypeError.
dispatch(all_events, name) ==
    IF name \notin DOMAIN all_events THEN [called |-> 0, thrown |-> "TypeError"]
    ELSE IF \E i \in 1..Len(all_events[name]) : all_events[name][i] # "returns"
    THEN With(CHOOSE i \in 1..Len(all_events[name]) :
                  /\ all_events[name][i] # "returns"
                  /\ \A k \in 1..(i - 1) : all_events[name][k] = "returns",
              LAMBDA i : [called |-> i, thrown |-> ThrownBy(all_events[name][i])])
    ELSE [called |-> Len(all_events[name]), thrown |-> "none"]

\* console.error( ( e.message || e ), ( e.stack || "" ) ): reading a property
\* of null or undefined is a TypeError
console_error_throws(e) == e \in {"null", "undefined"}

\* this.load(json), once: the event types and their handlers, then
\* dispatch( events.init, arguments )
Load ==
    /\ events = <<>>
    /\ \E scripts \in ScriptLists :
        With([name \in EventTypes |-> Handlers(scripts, name)], LAMBDA loaded :
        With(dispatch(loaded, "init"), LAMBDA d :
            /\ events' = loaded
            /\ playerStep' = PlayerStep("load", playerCall, d.called, d.thrown,
                                        d.thrown # "none", FALSE, FALSE)))
    /\ UNCHANGED <<listeners, animationLoop, time, prevTime, clock, playerCall>>
    /\ UNCHANGED <<progVars, apiVars, vecVars>>

\* this.play(): a start handler that throws leaves play before
\* renderer.setAnimationLoop( animate )
Play ==
    /\ playerCall \in {"none", "play", "stop"}
    /\ \E now \in clock..MaxNow :
        With(dispatch(events, "start"), LAMBDA d :
            /\ clock' = now
            /\ prevTime' = now
            /\ listeners' = listeners \cup DocumentTypes
            /\ animationLoop' = IF d.thrown = "none" THEN "animate" ELSE animationLoop
            /\ playerStep' = PlayerStep("play", playerCall, d.called, d.thrown,
                                        d.thrown # "none", FALSE, FALSE))
    /\ playerCall' = "play"
    /\ UNCHANGED <<events, time>>
    /\ UNCHANGED <<progVars, apiVars, vecVars>>

\* this.stop(): a stop handler that throws leaves stop before
\* renderer.setAnimationLoop( null )
Stop ==
    /\ playerCall \in {"none", "play", "stop"}
    /\ With(dispatch(events, "stop"), LAMBDA d :
            /\ listeners' = listeners \ DocumentTypes
            /\ animationLoop' = IF d.thrown = "none" THEN "null" ELSE animationLoop
            /\ playerStep' = PlayerStep("stop", playerCall, d.called, d.thrown,
                                        d.thrown # "none", FALSE, FALSE))
    /\ playerCall' = "stop"
    /\ UNCHANGED <<events, time, prevTime, clock>>
    /\ UNCHANGED <<progVars, apiVars, vecVars>>

\* onDocumentKeyDown ... onDocumentTouchMove, on an event of a type that has
\* its listener registered
DocumentEvent ==
    /\ listeners # {}
    /\ \E name \in listeners :
        With(dispatch(events, name), LAMBDA d :
            playerStep' = PlayerStep(name, playerCall, d.called, d.thrown,
                                     d.thrown # "none", FALSE, FALSE))
    /\ UNCHANGED <<events, listeners, animationLoop, time, prevTime, clock, playerCall>>
    /\ UNCHANGED <<progVars, apiVars, vecVars>>

\* animate(), called by the renderer for a frame while it is the animation
\* loop. What the renderer does with its loop when animate throws is not the
\* player's code: the loop goes on or ends.
Frame ==
    /\ animationLoop = "animate"
    /\ \E now \in clock..MaxNow :
        With(dispatch(events, "update"), LAMBDA d :
        With(d.thrown # "none" /\ console_error_throws(d.thrown), LAMBDA escaped :
            /\ clock' = now
            /\ time' = now
            /\ prevTime' = IF escaped THEN prevTime ELSE now
            /\ animationLoop' \in (IF escaped THEN {"animate", "null"} ELSE {"animate"})
            /\ playerStep' = PlayerStep("animate", playerCall, d.called, d.thrown, escaped,
                                        d.thrown # "none" /\ ~escaped, ~escaped)))
    /\ UNCHANGED <<events, listeners, playerCall>>
    /\ UNCHANGED <<progVars, apiVars, vecVars>>

\* ------------------------------------------------------------------------
\* Properties of the generic operations
\* ------------------------------------------------------------------------
\* Integer sum of F(1) .. F(n)
SumOver(n, F(_)) ==
    LET S[k \in 0..n] == IF k = 0 THEN 0 ELSE S[k - 1] + F(k) IN S[n]

Component(u, i) == u.items[i].v
Entry(m, i, j) == m.items[i].items[j].v

IsThrown(x) == x.t = "throw"
IsPlainVector(u) == u.t = "array" /\ ~u.matrix /\ \A i \in 1..LengthOf(u) : u.items[i].t = "number"
IsSquareMatrix(m) ==
    /\ m.t = "array" /\ m.matrix
    /\ \A i \in 1..LengthOf(m) : IsPlainVector(m.items[i]) /\ LengthOf(m.items[i]) = LengthOf(m)

MatrixProduct(u, v) ==
    SetMatrix(Array([i \in 1..LengthOf(u) |-> Array([j \in 1..LengthOf(u) |->
        Number(SumOver(LengthOf(u), LAMBDA k : Entry(u, i, k) * Entry(v, k, j)))])]))

MatrixVectorProduct(u, v) ==
    Array([i \in 1..LengthOf(u) |->
        Number(SumOver(LengthOf(u), LAMBDA k : Entry(u, i, k) * Component(v, k)))])

ComponentProduct(u, v) ==
    Array([i \in 1..LengthOf(u) |-> Number(Component(u, i) * Component(v, i))])

ExpectedMult(u, v, result) ==
    /\ LengthOf(u) # LengthOf(v) => IsThrown(result)
    /\ IsSquareMatrix(u) /\ IsSquareMatrix(v) /\ LengthOf(u) = LengthOf(v)
           => result = MatrixProduct(u, v)
    /\ IsSquareMatrix(u) /\ IsPlainVector(v) /\ LengthOf(u) = LengthOf(v)
           => result = MatrixVectorProduct(u, v)
    /\ IsPlainVector(u) /\ IsPlainVector(v) /\ LengthOf(u) = LengthOf(v)
           => result = ComponentProduct(u, v)

\* C12: mult(u, v) is the row-by-column product, flagged as a matrix, of two
\* flagged square matrices of one dimension; the matrix-vector product of a
\* flagged matrix and a plain vector of that length; the component-wise
\* product of two plain vectors of one length; and it throws when the
\* lengths of the operands differ.
C12_MultIsProduct == vop = "mult" => ExpectedMult(vargs[1], vargs[2], vout)

\* A product of two different 3x3 matrices, a matrix-vector product and a
\* throw have all to be seen; this is the first.
C12_Witness ==
    /\ vop = "mult"
    /\ IsSquareMatrix(vargs[1]) /\ IsSquareMatrix(vargs[2])
    /\ LengthOf(vargs[1]) = 3 /\ LengthOf(vargs[2]) = 3
    /\ vargs[1] # vargs[2]
    /\ vout.matrix /\ vout = MatrixProduct(vargs[1], vargs[2])
    /\ vout # MatrixProduct(vargs[2], vargs[1])

\* The integer entries of a square matrix, and the cofactor expansion of the
\* determinant along the first row.
Ints(m) == [i \in 1..LengthOf(m) |-> [j \in 1..LengthOf(m) |-> Entry(m, i, j)]]

Skip(k, d) == IF k < d THEN k ELSE k + 1

Minor(a, r, c) ==
    [i \in 1..(Len(a) - 1) |-> [j \in 1..(Len(a) - 1) |-> a[Skip(i, r)][Skip(j, c)]]]

RECURSIVE Determinant(_)
Determinant(a) ==
    IF Len(a) = 1 THEN a[1][1]
    ELSE SumOver(Len(a), LAMBDA j :
             (IF j % 2 = 1 THEN 1 ELSE -1) * a[1][j] * Determinant(Minor(a, 1, j)))

\* C13: det(m) of a 2x2, 3x3 or 4x4 matrix of integers is the determinant
\* of m, the cofactor expansion along its first row.
C13_DetIsDeterminant ==
    vop = "det" => vout = Number(Determinant(Ints(vargs[1])))

\* The same for the sizes whose determinant is computed without vec3.
DetOfSize2And3 ==
    vop = "det" /\ LengthOf(vargs[1]) \in {2, 3} => vout = Number(Determinant(Ints(vargs[1])))

IdentityMatrix(n) ==
    SetMatrix(Array([i \in 1..n |-> Array([j \in 1..n |-> Number(IF i = j THEN 1 ELSE 0)])]))

Cofactor(a, i, j) == (IF (i + j) % 2 = 0 THEN 1 ELSE -1) * Determinant(Minor(a, i, j))

\* The (j, i) cofactor over a determinant d that is 1 or -1
ExactInverse(m) ==
    SetMatrix(Array([i \in 1..LengthOf(m) |-> Array([j \in 1..LengthOf(m) |->
        Number(Cofactor(Ints(m), j, i) * Determinant(Ints(m)))])]))

IsInverseOf(m, result) ==
    /\ result = ExactInverse(m)
    /\ mult(m, result) = IdentityMatrix(LengthOf(m))
    /\ mult(result, m) = IdentityMatrix(LengthOf(m))

\* C14: when the determinant of the integer matrix m of size 2, 3 or 4 is 1
\* or -1, inverse(m) is the exact inverse: entry (i, j) is the (j, i)
\* cofactor of m over det(m), and mult(m, inverse(m)) and mult(inverse(m), m)
\* are the identity matrix.
C14_InverseIsExact ==
    vop = "inverse" /\ Determinant(Ints(vargs[1])) \in {1, -1}
        => IsInverseOf(vargs[1], vout)

\* The same for the size whose inverse is computed without vec2 and vec3.
InverseOfSize2 ==
    vop = "inverse" /\ LengthOf(vargs[1]) = 2 /\ Determinant(Ints(vargs[1])) \in {1, -1}
        => IsInverseOf(vargs[1], vout)

IsZeroVector(u) == IsPlainVector(u) /\ \A i \in 1..LengthOf(u) : u.items[i].v = 0

IsVectorOfNumbers(u) ==
    u.t = "array" /\ \A i \in 1..LengthOf(u) : IsRational(u.items[i])

\* C15: normalize(u) throws its 'has zero length' error when every component
\* of the vector u is 0, and returns a vector for every other vector.
C15_NormalizeThrowsOnZero ==
    vop = "normalize" /\ Len(vargs) = 1 /\ IsPlainVector(vargs[1])
        => IF IsZeroVector(vargs[1])
           THEN IsThrown(vout)
                /\ vout.s = "normalize: vector " \o JsString(vargs[1]) \o " has zero length"
           ELSE IsVectorOfNumbers(vout) /\ LengthOf(vout) = LengthOf(vargs[1])

\* normalize(u) on the vectors that are not zero: a vector of that length
NormalizeOfNonZero ==
    vop = "normalize" /\ Len(vargs) = 1 /\ IsPlainVector(vargs[1]) /\ ~IsZeroVector(vargs[1])
        => IsVectorOfNumbers(vout) /\ LengthOf(vout) = LengthOf(vargs[1])

IsVec3(x) == x.t = "array" /\ LengthOf(x) = 3

LookAtGuards(eye, at, up, result) ==
    IF ~IsVec3(eye) THEN result = Thrown("lookAt(): first parameter [eye] must be an a vec3")
    ELSE IF ~IsVec3(at) THEN result = Thrown("lookAt(): first parameter [at] must be an a vec3")
    ELSE ~IsVec3(up) => result = Thrown("lookAt(): first parameter [up] must be an a vec3")

OrthoGuards(left, right, bottom, top, near, far, result) ==
    left = right \/ bottom = top \/ near = far => IsThrown(result)

\* C16: lookAt(eye, at, up) throws when eye, at or up, looked at in that
\* order, is not an array of length 3, and returns the 4x4 identity matrix
\* when eye equals at; ortho throws when left equals right, bottom equals top
\* or near equals far.
C16_LookAtOrthoGuards ==
    /\ vop = "lookAt" => /\ LookAtGuards(vargs[1], vargs[2], vargs[3], vout)
                         /\ (IsVec3(vargs[1]) /\ IsVec3(vargs[3]) /\ vargs[1] = vargs[2]
                                => vout = IdentityMatrix(4))
    /\ vop = "ortho" => OrthoGuards(vargs[1], vargs[2], vargs[3], vargs[4], vargs[5], vargs[6], vout)

\* The throws alone
LookAtOrthoThrows ==
    /\ vop = "lookAt" => LookAtGuards(vargs[1], vargs[2], vargs[3], vout)
    /\ vop = "ortho" => OrthoGuards(vargs[1], vargs[2], vargs[3], vargs[4], vargs[5], vargs[6], vout)

IsArrayOfVectors(v) ==
    v.t = "array" /\ ~v.matrix /\ LengthOf(v) > 0
    /\ \A i \in 1..LengthOf(v) : IsPlainVector(v.items[i])

RECURSIVE Scalars(_)
Scalars(rows) == IF rows = <<>> THEN <<>> ELSE Head(rows).items \o Scalars(Tail(rows))

Floats(values) ==
    Value("Float32Array", 0, "", [k \in 1..Len(values) |-> Number(ToFloat32(values[k].v))])

ColumnMajor(m) ==
    Value("Float32Array", 0, "",
          [k \in 1..(LengthOf(m) * LengthOf(m)) |->
              Number(ToFloat32(Entry(m, ((k - 1) % LengthOf(m)) + 1, ((k - 1) \div LengthOf(m)) + 1)))])

OfOneLength(v) == \A i \in 1..LengthOf(v) : LengthOf(v.items[i]) = LengthOf(v.items[1])

TransposeTwice(m, result) ==
    /\ IsSquareMatrix(result)
    /\ \A i \in 1..LengthOf(m) : \A j \in 1..LengthOf(m) : Entry(result, i, j) = Entry(m, j, i)
    /\ transpose(result) = m

\* flatten on the arrays of vectors for which Uniform holds, and everything
\* else the claim says
FlattenAndTranspose(Uniform(_)) ==
    /\ vop = "flatten" /\ IsSquareMatrix(vargs[1])
           => vout = ColumnMajor(vargs[1]) /\ vout = flatten_floats(transpose(vargs[1]))
    /\ vop = "flatten" /\ IsPlainVector(vargs[1]) => vout = Floats(vargs[1].items)
    /\ vop = "flatten" /\ IsArrayOfVectors(vargs[1]) /\ Uniform(vargs[1])
           => vout = Floats(Scalars(vargs[1].items))
    /\ vop = "transpose" /\ IsSquareMatrix(vargs[1]) => TransposeTwice(vargs[1], vout)

\* C17: flatten of a flagged n x n matrix emits its entries in column-major
\* order (output[c*n + r] = m[r][c]), by transposing first; flatten of a plain
\* vector, or of an array of vectors that is not flagged and whose vectors
\* all have the length of the first, emits the scalars in their given order,
\* so that the output has as many elements as there are scalars; and
\* transpose(transpose(m)) is m for a square matrix m. (Every number is
\* emitted as the Float32Array holds it.)
C17_FlattenOrder == FlattenAndTranspose(OfOneLength)

\* C17 as stated: the same for every array of vectors that is not flagged.
C17_FlattenOfAnyArray == FlattenAndTranspose(LAMBDA v : TRUE)

\* A 3x3 matrix that is not symmetric has been flattened, column by column.
C17_Witness ==
    /\ vop = "flatten" /\ IsSquareMatrix(vargs[1]) /\ LengthOf(vargs[1]) = 3
    /\ vout = ColumnMajor(vargs[1])
    /\ vout # Floats(Scalars(vargs[1].items))

\* C18: this.isEqualTo(compare_vector) is a Boolean for every Vector
\* compare_vector: true when the two vectors are of one class and one length
\* and their components are equal one by one, false otherwise.
C18_IsEqualToIsBoolean ==
    vop = "isEqualTo"
        => /\ vout \in {true, false}
           /\ vout = true <=> /\ vargs[1].t = vargs[2].t
                              /\ LengthOf(vargs[1]) = LengthOf(vargs[2])
                              /\ \A i \in 1..LengthOf(vargs[1]) :
                                     vargs[1].items[i] = vargs[2].items[i]

\* The n rows of n numbers that values holds row by row, as a matrix of the
\* class: an array of exactly n rows, each a VectorN
MatrixOfClass(n, values) ==
    Value("Matrix" \o ToString(n), 0, "",
          [i \in 1..n |-> Value("Vector" \o ToString(n), 0, "",
                                [j \in 1..n |-> values[(i - 1) * n + j]])])

\* The values of s times the n x n identity, row by row
IdentityValues(n, s) ==
    [k \in 1..(n * n) |-> Number(IF (k - 1) \div n = (k - 1) % n THEN s ELSE 0)]

IsNumbers(x, count) ==
    x.t = "array" /\ LengthOf(x) = count /\ \A k \in 1..count : x.items[k].t = "number"

ExpectedMatrix(n, args, result) ==
    /\ args = <<>> => result = MatrixOfClass(n, IdentityValues(n, 1))
    /\ Len(args) = 1 /\ args[1].t = "number"
           => result = MatrixOfClass(n, IdentityValues(n, args[1].v))
    /\ Len(args) = 1 /\ IsNumbers(args[1], n * n) => result = MatrixOfClass(n, args[1].items)
    /\ Len(args) = 1 /\ args[1].t = "array" /\ LengthOf(args[1]) = n
           /\ (\A i \in 1..n : IsNumbers(args[1].items[i], n))
           => result = MatrixOfClass(n, Scalars(args[1].items))

\* C20: new Matrix2(), new Matrix3() and new Matrix4() are the n x n identity,
\* an array of exactly n rows that are each a VectorN; with one number s they
\* are s times the identity; with n rows of n numbers, or with a flat array
\* of n*n numbers, they hold those values row by row.
C20_MatrixConstructors ==
    /\ vop = "Matrix2" => ExpectedMatrix(2, vargs, vout)
    /\ vop = "Matrix3" => ExpectedMatrix(3, vargs, vout)
    /\ vop = "Matrix4" => ExpectedMatrix(4, vargs, vout)

\* Matrix2 without the flat arrays of numbers
Matrix2OfRowsOrScalar ==
    vop = "Matrix2" /\ ~(Len(vargs) = 1 /\ IsNumbers(vargs[1], 4)) => ExpectedMatrix(2, vargs, vout)

\* An array of rows that are vectors of numbers of one length
IsVectorOfClass(v) == IsArray(v) /\ \A i \in 1..LengthOf(v) : v.items[i].t = "number"
IsMatrixOfRows(m) ==
    /\ IsArray(m) /\ LengthOf(m) > 0
    /\ \A i \in 1..LengthOf(m) :
           IsVectorOfClass(m.items[i]) /\ LengthOf(m.items[i]) = LengthOf(m.items[1])

\* row * M: entry j is the sum over k of row[k] * M[k][j]
RowProduct(row, m) ==
    [j \in 1..LengthOf(m.items[1]) |->
        Number(SumOver(LengthOf(m), LAMBDA k : Component(row, k) * Entry(m, k, j)))]

IsRowProduct(row, m, result) ==
    IF LengthOf(row) # LengthOf(m) THEN IsThrown(result)
    ELSE IsArray(result) /\ result.items = RowProduct(row, m)

\* new MatrixN() for the N of the class of a Vector2, ..., Matrix4
IdentityFor(value) ==
    IF value.t \in {"Vector2", "Matrix2"} THEN Matrix2(<<>>)
    ELSE IF value.t \in {"Vector3", "Matrix3"} THEN Matrix3(<<>>)
    ELSE Matrix4(<<>>)

ExpectedVectorTimes(this, m, result) ==
    /\ IsMatrixOfRows(m) => IsRowProduct(this, m, result)
    /\ m = IdentityFor(this) => result = this

ExpectedMatrixTimes(this, m, result) ==
    /\ IsMatrixOfRows(this) /\ IsMatrixOfRows(m)
           => IF LengthOf(this.items[1]) # LengthOf(m) THEN IsThrown(result)
              ELSE /\ IsArray(result) /\ LengthOf(result) = LengthOf(this)
                   /\ \A i \in 1..LengthOf(this) :
                          IsArray(result.items[i])
                          /\ result.items[i].items = RowProduct(this.items[i], m)
    /\ this.t \in {"Matrix2", "Matrix3", "Matrix4"} /\ m = IdentityFor(this)
           => result = this

\* C19: v.times(M) and m.times(M) are the product this * M for operands of
\* dimension 2, 3 and 4: entry j of each row of the result is the sum over k
\* of row[k] * M[k][j], so that times(identity) gives the receiver back; and
\* both throw when the column count of this differs from the row count of M.
C19_TimesIsProduct ==
    /\ vop = "Vector.times" => ExpectedVectorTimes(vargs[1], vargs[2], vout)
    /\ vop = "Matrix.times" => ExpectedMatrixTimes(vargs[1], vargs[2], vout)

\* The same for a Vector2 or a Matrix2 times a Matrix2
TimesOfSize2 ==
    vargs # <<>> /\ vargs[1].t \in {"Vector2", "Matrix2"} /\ vargs[2].t = "Matrix2"
        => C19_TimesIsProduct

\* ------------------------------------------------------------------------
\* Properties of APP.Player
\* ------------------------------------------------------------------------
\* C21: play() registers the eight document listeners, dispatches 'start' and
\* installs the animation loop; stop() removes the eight listeners,
\* dispatches 'stop' and clears the animation loop; so when the latest of the
\* play and stop calls is a stop, no document event reaches a script handler
\* and no frame is animated.
C21_StopEndsEventsAndFrames ==
    /\ playerStep.op = "play" => listeners = DocumentTypes /\ animationLoop = "animate"
    /\ playerCall = "stop" => listeners = {} /\ animationLoop = "null"
    /\ playerStep.op \in DocumentTypes \cup {"animate"} => playerStep.after # "stop"

\* The same while the project is loaded and no start or stop handler throws
StopEndsWhenHandlersReturn ==
    /\ DOMAIN events # {}
    /\ \A i \in 1..Len(events["start"]) : events["start"][i] = "returns"
    /\ \A i \in 1..Len(events["stop"]) : events["stop"][i] = "returns"
    => \/ playerStep.op = "load"
       \/ C21_StopEndsEventsAndFrames

\* C22: when an 'update' handler throws in animate, the exception is caught
\* and logged and does not leave animate; in that frame the scene is still
\* rendered and prevTime becomes the time of the frame, and animate stays the
\* animation loop.
C22_UpdateThrowIsCaught ==
    playerStep.op = "animate" /\ playerStep.thrown # "none"
        => /\ ~playerStep.escaped /\ playerStep.logged /\ playerStep.rendered
           /\ prevTime = time
           /\ animationLoop = "animate"

\* The same for the handlers that throw an Error or a text
UpdateThrowOfObjectIsCaught ==
    playerStep.thrown \in {"Error", "text"} => C22_UpdateThrowIsCaught

\* ------------------------------------------------------------------------
\* Properties of the cube geometry
\* ------------------------------------------------------------------------
Faces == 0..(Len(face_colors) - 1)

\* The two triangles of face f: (4f, 4f+1, 4f+2) and (4f, 4f+2, 4f+3).
FaceTriangles(f) ==
    << 4 * f, 4 * f + 1, 4 * f + 2, 4 * f, 4 * f + 2, 4 * f + 3 >>

\* C23: the cube geometry is consistent: positions and normals hold 24
\* vertices of 3 numbers, texture coordinates 24 of 2, colors 24 of 4 with
\* the four vertices of face f carrying face f's colour; the index array has
\* 36 entries, all in 0..23, face f contributing its two triangles; and at
\* every drawElements call of main.js's drawCubeScene the element count is
\* the length of the index array, which is the array in the bound element
\* buffer.
C23_CubeIsConsistent ==
    /\ Len(cube_data.positions) = 24 * 3
    /\ Len(cube_data.normals) = 24 * 3
    /\ Len(cube_data.textures) = 24 * 2
    /\ Len(cube_data.colors) = 24 * 4
    /\ \A f \in Faces : \A k \in 0..3 :
           SubSeq(cube_data.colors, 16 * f + 4 * k + 1, 16 * f + 4 * k + 4)
               = face_colors[f + 1]
    /\ Len(cube_data.indices) = 36
    /\ \A i \in 1..Len(cube_data.indices) : cube_data.indices[i] \in 0..23
    /\ \A f \in Faces :
           SubSeq(cube_data.indices, 6 * f + 1, 6 * f + 6) = FaceTriangles(f)
    /\ (variant = "flat" /\ gl.draws > 0) =>
           /\ gl.lastDraw.count = Len(cube_data.indices)
           /\ gl.lastDraw.elements = buffer_data.cube_indices
           /\ gl.buffers[gl.lastDraw.elements].data = Uint16Array(cube_data.indices)

\* The flat cube program has drawn the cube: 36 elements of the index buffer
\* that main populated with the cube's indices.
C23_Witness ==
    /\ variant = "flat"
    /\ gl.draws > 0
    /\ gl.lastDraw.count = 36
    /\ Len(gl.buffers[gl.lastDraw.elements].data) = 36
    /\ Len(gl.buffers[buffer_data.cube_color].data) = 96

\* ------------------------------------------------------------------------
\* The specification of the generic operations: the operands are chosen
\* before the call.
\* ------------------------------------------------------------------------
MatInputs == MultInputs \cup SquareInputs \cup NormalizeInputs
             \cup LookAtInputs \cup OrthoInputs
             \cup FlattenInputs \cup TransposeInputs

InitMat ==
    /\ ProgramIdle({"none"})
    /\ PlayerIdle
    /\ ApiIdle
    /\ vop = "none"
    /\ vargs \in MatInputs
    /\ vout = undefined

NextMat == CallMult \/ CallDet \/ CallInverse \/ CallNormalize
           \/ CallLookAt \/ CallOrtho
           \/ CallTranspose \/ CallFlatten

SpecMat == InitMat /\ [][NextMat]_vars

\* ------------------------------------------------------------------------
\* The specification of the classes: the receiver and the arguments are
\* chosen before the call.
\* ------------------------------------------------------------------------
ClassInputs ==
    IsEqualToInputs \cup MatrixArguments \cup VectorTimesInputs \cup MatrixTimesInputs

InitClass ==
    /\ ProgramIdle({"none"})
    /\ PlayerIdle
    /\ ApiIdle
    /\ vop = "none"
    /\ vargs \in ClassInputs
    /\ vout = undefined

NextClass ==
    \/ CallIsEqualTo \/ CallMatrix2 \/ CallMatrix3 \/ CallMatrix4
    \/ CallVectorTimes \/ CallMatrixTimes

SpecClass == InitClass /\ [][NextClass]_vars

\* ------------------------------------------------------------------------
\* The specification of APP.Player, from new APP.Player()
\* ------------------------------------------------------------------------
InitPlayer == ProgramIdle({"none"}) /\ ApiIdle /\ VecIdle /\ PlayerIdle

NextPlayer == Load \/ Play \/ Stop \/ DocumentEvent \/ Frame

SpecPlayer == InitPlayer /\ [][NextPlayer]_vars

====
